---- MODULE Spec2Model ----
(***************************************************************************)
(* Model of the untrace Python SDK: the provider adapter registry, the     *)
(* adapters that monkey-patch third-party client constructors and methods, *)
(* and the tracing wrappers that run around every intercepted call.        *)
(***************************************************************************)
EXTENDS Integers, Sequences, FiniteSets, TLC

(***************************************************************************)
(* Bounds of the model.                                                    *)
(***************************************************************************)
\* how many keys of PROVIDER_INSTRUMENTATIONS (in dict order) are modelled
NumProviders == 2
\* how many client objects the application constructs
MaxClients == 1
\* longest provider list handed to instrument_all
MaxListLen == 2
\* longest span list handed to the exporter in one call
MaxSpans == 3
\* how many Untrace objects get constructed
MaxInstances == 2
\* how many spans end and reach the batching processor
MaxEnded == 5

(***************************************************************************)
(* The provider registry table and the per-adapter patch targets.          *)
(***************************************************************************)
PROVIDER_INSTRUMENTATIONS ==
    <<"openai", "anthropic", "google", "microsoft", "aws", "cohere">>

Providers == {PROVIDER_INSTRUMENTATIONS[i] : i \in 1..NumProviders}

\* a name that is not a key of PROVIDER_INSTRUMENTATIONS
UnsupportedNames == {"nonexistent"}

ProviderNames == Providers \cup UnsupportedNames

\* get_supported_providers(): list(PROVIDER_INSTRUMENTATIONS.keys())
get_supported_providers == [i \in 1..NumProviders |-> PROVIDER_INSTRUMENTATIONS[i]]

\* the callables each adapter's instrument() replaces (keys of _original_constructors)
Slots(p) ==
    CASE p = "openai"    -> {"OpenAI", "AsyncOpenAI"}
      [] p = "anthropic" -> {"Anthropic", "AsyncAnthropic"}
      [] p = "google"    -> {"GenerativeModel"}
      [] p = "microsoft" -> {"AzureOpenAI", "AsyncAzureOpenAI"}
      [] p = "aws"       -> {"boto3_client"}
      [] p = "cohere"    -> {"CohereClient"}

AllSlots == UNION {Slots(p) : p \in Providers}

SlotProvider(s) == CHOOSE p \in Providers : s \in Slots(p)

\* classes whose methods are coroutine functions
AsyncSlots == {"AsyncOpenAI", "AsyncAnthropic", "AsyncAzureOpenAI"}

\* the per-instance methods _instrument_client_instance patches
Methods(p) ==
    CASE p = "openai"    -> {"chat.completions.create", "completions.create", "embeddings.create"}
      [] p = "anthropic" -> {"messages.create", "completions.create"}
      [] p = "google"    -> {"generate_content", "start_chat"}
      [] p = "microsoft" -> {"chat.completions.create", "completions.create", "embeddings.create"}
      [] p = "aws"       -> {"invoke_model", "invoke_model_with_response_stream"}
      [] p = "cohere"    -> {"generate", "chat", "embed"}

\* boto3.client(service_name): only 'bedrock-runtime' clients are instrumented
Services(s) == IF s = "boto3_client" THEN {"bedrock-runtime", "s3"} ELSE {"-"}

(***************************************************************************)
(* Callables.  A callable is the stack of wrappers around a library        *)
(* original: <<>> is the original itself, Append(c, p) is the wrapper that *)
(* adapter p built around c.                                               *)
(***************************************************************************)
Original == <<>>

Wrap(c, p) == Append(c, p)

\* what importing the provider's client library does: it succeeds (present),
\* raises ImportError (absent), or raises another exception, as a damaged or
\* incompatible installation does (broken)
LibStates == {"present", "absent", "broken"}

VARIABLES
    lib,                     \* provider -> LibStates, fixed for a run
    ctor,                    \* slot -> callable currently installed on the library
    instrumentations,        \* providers/__init__.py _instrumentations: name -> adapter
    instrumented_providers,  \* instrumentation.py _instrumented_providers
    clients,                 \* the client objects constructed so far
    call,                    \* the most recent call through a client method or with_span
    spans,                   \* the spans opened by that call, innermost first
    metrics,                 \* what that call recorded through UntraceMetrics
    raised,                  \* whether the last operation raised to its caller
    lastOp,                  \* the last operation performed
    exp,                     \* the last call made to the UntraceExporter
    global_state,            \* untrace.py _global_state
    instances,               \* the Untrace objects constructed so far
    tracer_provider,         \* trace.set_tracer_provider: the provider registered, calls made
    returned,                \* the instance the last init / get_untrace returned, 0 for none
    last_init,               \* the instance the last successful init returned, 0 for none
    bsp,                     \* the BatchSpanProcessor an Untrace object set up
    san,                     \* the last call made to sanitize_attributes
    current_context,         \* the telemetry runtime's current Context: key -> value
    last_set,                \* key -> the value last handed to set_<key>, None after a clear
    got,                     \* what the last get_<key>() returned
    thr,                     \* thread -> where it is in the function it runs, and its locals
    objects,                 \* the adapter objects the threads created, by identity
    registered,              \* the identity of the adapter _instrumentations holds, 0 for none
    adapter_tracer           \* provider -> the Untrace object whose tracer and metrics its
                             \* adapter holds (self.tracer, self.metrics); 0 for those the
                             \* application passed itself, and for no adapter

regVars == <<ctor, instrumentations, instrumented_providers>>
callVars == <<call, spans, metrics>>
sdkVars == <<exp, global_state, instances, tracer_provider, returned, last_init, bsp>>
ctxVars == <<san, current_context, last_set, got>>
thrVars == <<thr, objects, registered>>
auxVars == <<san, current_context, last_set, got, thr, objects, registered, adapter_tracer>>
vars == <<lib, ctor, instrumentations, instrumented_providers, clients,
          call, spans, metrics, raised, lastOp,
          exp, global_state, instances, tracer_provider, returned, last_init, bsp,
          san, current_context, last_set, got, thr, objects, registered,
          adapter_tracer>>

(***************************************************************************)
(* Adapters (BaseProviderInstrumentation and its subclasses).              *)
(***************************************************************************)
EmptyMap == [x \in {} |-> Original]

\* BaseProviderInstrumentation.__init__ plus the subclass __init__
NewAdapter ==
    [instrumented |-> FALSE,
     original_constructors |-> EmptyMap,
     original_methods |-> EmptyMap]

\* the registry state the adapter operations read and write
Reg == [inst |-> instrumentations, ctor |-> ctor]

\* the tracer and metrics an application passes to instrument_<p> itself
AppTracer == 0

\* BaseProviderInstrumentation.__init__: `self.tracer = tracer`,
\* `self.metrics = metrics`.  An adapter created by this operation holds the
\* tracer the operation was given, an adapter that was there keeps its own.
adapter_tracers(inst, tracer) ==
    [p \in Providers |->
        IF p \notin DOMAIN inst THEN 0
        ELSE IF p \notin DOMAIN instrumentations THEN tracer
        ELSE adapter_tracer[p]]

_is_instrumented(R, p) == p \in DOMAIN R.inst /\ R.inst[p].instrumented

_mark_instrumented(a) == [a EXCEPT !.instrumented = TRUE]

_mark_uninstrumented(a) == [a EXCEPT !.instrumented = FALSE]

MapSet(f, k, v) == [x \in DOMAIN f \cup {k} |-> IF x = k THEN v ELSE f[x]]

MapDel(f, k) == [x \in DOMAIN f \ {k} |-> f[x]]

\* try_patch with _mark_instrumented() placed after the try/except, so that
\* it also runs when the import failed
try_patch_mark_always(R, p) ==
    LET a == R.inst[p] IN
    CASE lib[p] = "absent" ->
           [reg |-> [R EXCEPT !.inst[p] = _mark_instrumented(a)], raised |-> FALSE]
      [] lib[p] = "broken" -> [reg |-> R, raised |-> TRUE]
      [] OTHER ->
           LET recorded == [s \in DOMAIN a.original_constructors \cup Slots(p) |->
                               IF s \in Slots(p) THEN R.ctor[s]
                               ELSE a.original_constructors[s]]
               patched == [s \in DOMAIN R.ctor |->
                               IF s \in Slots(p) THEN Wrap(R.ctor[s], p)
                               ELSE R.ctor[s]]
               a1 == _mark_instrumented([a EXCEPT !.original_constructors = recorded])
           IN [reg |-> [inst |-> [R.inst EXCEPT ![p] = a1], ctor |-> patched],
               raised |-> FALSE]

\* the try block of <Provider>Instrumentation.instrument(): import the client
\* library, record the original constructors, install the wrappers, mark.
\* Yields the new registry state and whether the call raised.
try_patch(R, p) ==
    LET a == R.inst[p] IN
    CASE lib[p] = "absent" -> [reg |-> R, raised |-> FALSE]
      [] lib[p] = "broken" -> [reg |-> R, raised |-> TRUE]
      [] OTHER ->
           LET recorded == [s \in DOMAIN a.original_constructors \cup Slots(p) |->
                               IF s \in Slots(p) THEN R.ctor[s]
                               ELSE a.original_constructors[s]]
               patched == [s \in DOMAIN R.ctor |->
                               IF s \in Slots(p) THEN Wrap(R.ctor[s], p)
                               ELSE R.ctor[s]]
               a1 == _mark_instrumented([a EXCEPT !.original_constructors = recorded])
           IN [reg |-> [inst |-> [R.inst EXCEPT ![p] = a1], ctor |-> patched],
               raised |-> FALSE]

\* instrument() without its `if self._instrumented: return` guard
instrument_unguarded(R, p) == try_patch(R, p)

\* <Provider>Instrumentation.instrument(), on the adapter registered for p
instrument(R, p) ==
    IF R.inst[p].instrumented THEN [reg |-> R, raised |-> FALSE]
    ELSE try_patch(R, p)

\* <Provider>Instrumentation.uninstrument(), on the adapter registered for p
uninstrument(R, p) ==
    LET a == R.inst[p] IN
    IF ~a.instrumented THEN [reg |-> R, raised |-> FALSE]
    ELSE CASE lib[p] = "broken" -> [reg |-> R, raised |-> TRUE]
           [] lib[p] = "absent" ->
                [reg |-> [R EXCEPT !.inst[p] = _mark_uninstrumented(a)], raised |-> FALSE]
           [] OTHER ->
                LET restored == [s \in DOMAIN R.ctor |->
                                    IF s \in Slots(p) THEN a.original_constructors[s]
                                    ELSE R.ctor[s]]
                IN [reg |-> [inst |-> [R.inst EXCEPT ![p] = _mark_uninstrumented(a)],
                             ctor |-> restored],
                    raised |-> FALSE]

(***************************************************************************)
(* The registry functions of providers/__init__.py.                        *)
(***************************************************************************)
\* get_provider_instrumentation: None for an unknown name, else get-or-create
get_provider_instrumentation(R, name) ==
    IF name \notin Providers THEN R
    ELSE IF name \notin DOMAIN R.inst
         THEN [R EXCEPT !.inst = MapSet(R.inst, name, NewAdapter)]
         ELSE R

instrument_provider(R, name) ==
    LET R1 == get_provider_instrumentation(R, name) IN
    IF name \in DOMAIN R1.inst THEN instrument(R1, name)
    ELSE [reg |-> R1, raised |-> FALSE]

uninstrument_provider(R, name) ==
    IF name \in DOMAIN R.inst
    THEN LET r == uninstrument(R, name) IN
         IF r.raised THEN r
         ELSE [reg |-> [r.reg EXCEPT !.inst = MapDel(r.reg.inst, name)], raised |-> FALSE]
    ELSE [reg |-> R, raised |-> FALSE]

\* instrument_all_providers without the try/except around each provider: the
\* first failure ends the loop and reaches the caller
RECURSIVE instrument_all_providers_no_try(_, _)
instrument_all_providers_no_try(R, providers) ==
    IF providers = <<>> THEN [reg |-> R, raised |-> FALSE]
    ELSE LET r == instrument_provider(R, Head(providers)) IN
         IF r.raised THEN r
         ELSE instrument_all_providers_no_try(r.reg, Tail(providers))

\* instrument_all_providers: the loop with its try/except around each provider
RECURSIVE instrument_all_providers(_, _)
instrument_all_providers(R, providers) ==
    IF providers = <<>> THEN [reg |-> R, raised |-> FALSE]
    ELSE instrument_all_providers(instrument_provider(R, Head(providers)).reg,
                                  Tail(providers))

\* the order in which list(_instrumentations.keys()) is walked does not matter:
\* each step only touches its own provider
RECURSIVE uninstrument_all_providers(_, _)
uninstrument_all_providers(R, names) ==
    IF names = {} THEN [reg |-> R, raised |-> FALSE]
    ELSE LET n == CHOOSE x \in names : TRUE
             r == uninstrument_provider(R, n)
         IN IF r.raised THEN r ELSE uninstrument_all_providers(r.reg, names \ {n})

(***************************************************************************)
(* The functions of instrumentation.py, which keep _instrumented_providers.*)
(***************************************************************************)
ProviderLists ==
    UNION {[1..n -> ProviderNames] : n \in 0..MaxListLen}

\* the record kept of an operation; again tells that the operation before it
\* was the same one with the same argument
Op(name, arg) ==
    [op |-> name, arg |-> arg, again |-> (lastOp.op = name /\ lastOp.arg = arg)]

\* instrument_<p>(tracer, metrics, context)
instrument_p(p) ==
    LET r == instrument_provider(Reg, p) IN
    /\ instrumentations' = r.reg.inst
    /\ ctor' = r.reg.ctor
    /\ instrumented_providers' =
          IF r.raised THEN instrumented_providers
          ELSE instrumented_providers \cup {p}
    /\ raised' = r.raised
    /\ lastOp' = Op("instrument", <<p>>)
    /\ UNCHANGED <<lib, clients, call, spans, metrics>>
    /\ UNCHANGED sdkVars
    /\ adapter_tracer' = adapter_tracers(r.reg.inst, AppTracer)
    /\ UNCHANGED ctxVars
    /\ UNCHANGED thrVars

\* uninstrument_<p>()
uninstrument_p(p) ==
    LET r == uninstrument_provider(Reg, p) IN
    /\ instrumentations' = r.reg.inst
    /\ ctor' = r.reg.ctor
    /\ instrumented_providers' =
          IF r.raised THEN instrumented_providers
          ELSE instrumented_providers \ {p}
    /\ raised' = r.raised
    /\ lastOp' = Op("uninstrument", <<p>>)
    /\ UNCHANGED <<lib, clients, call, spans, metrics>>
    /\ UNCHANGED sdkVars
    /\ adapter_tracer' = adapter_tracers(r.reg.inst, AppTracer)
    /\ UNCHANGED ctxVars
    /\ UNCHANGED thrVars

Range(seq) == {seq[i] : i \in DOMAIN seq}

\* instrument_all(tracer, metrics, context, providers) with an explicit list
instrument_all(providers) ==
    LET r == instrument_all_providers(Reg, providers) IN
    /\ instrumentations' = r.reg.inst
    /\ ctor' = r.reg.ctor
    /\ instrumented_providers' =
          IF r.raised THEN instrumented_providers
          ELSE instrumented_providers \cup Range(providers)
    /\ raised' = r.raised
    /\ lastOp' = Op("instrument_all", providers)
    /\ UNCHANGED <<lib, clients, call, spans, metrics>>
    /\ UNCHANGED sdkVars
    /\ adapter_tracer' = adapter_tracers(r.reg.inst, AppTracer)
    /\ UNCHANGED ctxVars
    /\ UNCHANGED thrVars

\* instrument_all(tracer, metrics, context): providers=None
instrument_all_default ==
    LET r == instrument_all_providers(Reg, get_supported_providers) IN
    /\ instrumentations' = r.reg.inst
    /\ ctor' = r.reg.ctor
    /\ instrumented_providers' =
          IF r.raised THEN instrumented_providers
          ELSE instrumented_providers \cup Range(get_supported_providers)
    /\ raised' = r.raised
    /\ lastOp' = Op("instrument_all_default", <<>>)
    /\ UNCHANGED <<lib, clients, call, spans, metrics>>
    /\ UNCHANGED sdkVars
    /\ adapter_tracer' = adapter_tracers(r.reg.inst, AppTracer)
    /\ UNCHANGED ctxVars
    /\ UNCHANGED thrVars

\* uninstrument_all()
uninstrument_all ==
    LET r == uninstrument_all_providers(Reg, DOMAIN instrumentations) IN
    /\ instrumentations' = r.reg.inst
    /\ ctor' = r.reg.ctor
    /\ instrumented_providers' = IF r.raised THEN instrumented_providers ELSE {}
    /\ raised' = r.raised
    /\ lastOp' = Op("uninstrument_all", <<>>)
    /\ UNCHANGED <<lib, clients, call, spans, metrics>>
    /\ UNCHANGED sdkVars
    /\ adapter_tracer' = adapter_tracers(r.reg.inst, AppTracer)
    /\ UNCHANGED ctxVars
    /\ UNCHANGED thrVars

\* get_instrumented_providers()
get_instrumented_providers == instrumented_providers

\* is_provider_instrumented(provider_name)
is_provider_instrumented(name) == name \in instrumented_providers

(***************************************************************************)
(* Client construction through the (possibly wrapped) constructor.         *)
(***************************************************************************)
\* _patch_method(obj, method_name, wrapper_factory) run by adapter p on a
\* method of client k; C holds the adapters and the client's method table
_patch_method(C, p, k, m) ==
    IF m \notin DOMAIN C.methods THEN C
    ELSE [inst |-> IF p \in DOMAIN C.inst
                   THEN [C.inst EXCEPT ![p].original_methods =
                            MapSet(@, <<k, m>>, C.methods[m])]
                   ELSE C.inst,
          methods |-> [C.methods EXCEPT ![m] = Wrap(@, p)]]

RECURSIVE PatchEach(_, _, _, _)
PatchEach(C, p, k, ms) ==
    IF ms = {} THEN C
    ELSE LET m == CHOOSE x \in ms : TRUE IN
         PatchEach(_patch_method(C, p, k, m), p, k, ms \ {m})

\* _instrument_client_instance / _instrument_bedrock_client
_instrument_client_instance(C, p, k) == PatchEach(C, p, k, Methods(p))

\* the methods a freshly constructed object of class s carries
FreshMethods(s, svc) ==
    IF svc \in {"-", "bedrock-runtime"}
    THEN [m \in Methods(SlotProvider(s)) |-> Original]
    ELSE EmptyMap

\* calling the constructor c: every wrapper layer first calls the callable it
\* wraps, then instruments the new instance
RECURSIVE construct(_, _, _, _, _)
construct(c, inst, s, svc, k) ==
    IF c = <<>> THEN [inst |-> inst, methods |-> FreshMethods(s, svc)]
    ELSE LET inner == construct(SubSeq(c, 1, Len(c) - 1), inst, s, svc, k)
             p == c[Len(c)]
         IN IF svc \in {"-", "bedrock-runtime"}
            THEN _instrument_client_instance(inner, p, k)
            ELSE inner

\* the application constructs a client: OpenAI(...), AsyncOpenAI(...), ...
NewClient(s, svc) ==
    /\ Len(clients) < MaxClients
    /\ lib[SlotProvider(s)] = "present"
    /\ LET k == Len(clients) + 1
           C == construct(ctor[s], instrumentations, s, svc, k)
       IN /\ clients' = Append(clients, [cls |-> s, service |-> svc, methods |-> C.methods])
          /\ instrumentations' = C.inst
    /\ raised' = FALSE
    /\ lastOp' = Op("new_client", <<s>>)
    /\ UNCHANGED <<lib, ctor, instrumented_providers, call, spans, metrics>>
    /\ UNCHANGED sdkVars
    /\ UNCHANGED auxVars

(***************************************************************************)
(* Values that flow through an intercepted call.                           *)
(***************************************************************************)
\* A response object, described by the attributes the wrappers look at.
\*   choices: absent | empty | message (choices[0].message.content set) |
\*            message_none (choices[0].message is None) | text
\*   data:    absent | empty | embedding | no_embedding (data[0] has no .embedding)
\*   content: absent | text_block
\*   usage:   absent | present
Resp(ch, d, co, u) ==
    [type |-> "response", choices |-> ch, data |-> d, content |-> co, usage |-> u]

Responses ==
    { Resp("message", "absent", "absent", "present"),
      Resp("message", "absent", "absent", "absent"),
      Resp("message_none", "absent", "absent", "present"),
      Resp("absent", "embedding", "absent", "present"),
      Resp("absent", "no_embedding", "absent", "absent"),
      Resp("absent", "absent", "text_block", "present") }

\* what calling a coroutine function returns: an awaitable with none of the
\* response attributes
Coroutine ==
    [type |-> "coroutine", choices |-> "absent", data |-> "absent",
     content |-> "absent", usage |-> "absent"]

NoValue ==
    [type |-> "none", choices |-> "absent", data |-> "absent",
     content |-> "absent", usage |-> "absent"]

Exc(t, a) == [type |-> t, args |-> a]

NoExc == Exc("none", <<>>)

\* exceptions the underlying call may raise (subclasses of Exception)
Exceptions == {Exc("TimeoutError", <<"slow">>), Exc("Exception", <<>>)}

\* asyncio.CancelledError derives from BaseException, not from Exception
CancelledError == Exc("CancelledError", <<>>)

IsException(e) == e.type \notin {"none", "CancelledError"}

\* str(e) of an exception built from its args
str(e) == IF Len(e.args) = 0 THEN "" ELSE e.args[1]

Return(v) == [kind |-> "return", value |-> v, exc |-> NoExc]

Raise(e) == [kind |-> "raise", value |-> NoValue, exc |-> e]

NoOutcome == [kind |-> "none", value |-> NoValue, exc |-> NoExc]

(***************************************************************************)
(* The tracing wrappers.                                                   *)
(***************************************************************************)
\* the span name each wrapper uses
SpanName(p, m) ==
    CASE p = "openai"    -> "openai." \o m
      [] p = "anthropic" -> "anthropic." \o m
      [] p = "google"    -> "google.generativeai." \o m
      [] p = "microsoft" -> "azure.openai." \o m
      [] p = "aws"       -> "aws.bedrock." \o m
      [] p = "cohere"    -> "cohere." \o m

\* the response-data extraction of traced_call, after llm.response.received:
\* the span operations it performs and the exception it raises, if any
ExtractResponse(p, m, r) ==
    CASE p \in {"openai", "microsoft"} /\ m = "chat.completions.create" ->
            CASE r.choices \in {"message", "text"} ->
                    [ops |-> <<"set_attribute:llm.response.content">>, exc |-> NoExc]
              [] r.choices = "message_none" ->
                    [ops |-> <<>>,
                     exc |-> Exc("AttributeError",
                                 <<"'NoneType' object has no attribute 'content'">>)]
              [] OTHER -> [ops |-> <<>>, exc |-> NoExc]
      [] p \in {"openai", "microsoft"} /\ m = "completions.create" ->
            IF r.choices = "text"
            THEN [ops |-> <<"set_attribute:llm.response.text">>, exc |-> NoExc]
            ELSE [ops |-> <<>>, exc |-> NoExc]
      [] p \in {"openai", "microsoft"} /\ m = "embeddings.create" ->
            CASE r.data = "embedding" ->
                    [ops |-> <<"set_attribute:llm.response.embeddings_count",
                               "set_attribute:llm.response.embedding_dimension">>,
                     exc |-> NoExc]
              [] r.data = "no_embedding" ->
                    [ops |-> <<"set_attribute:llm.response.embeddings_count">>,
                     exc |-> Exc("AttributeError",
                                 <<"object has no attribute 'embedding'">>)]
              [] OTHER -> [ops |-> <<>>, exc |-> NoExc]
      [] p = "anthropic" /\ m = "messages.create" ->
            IF r.content = "text_block"
            THEN [ops |-> <<"set_attribute:llm.response.content">>, exc |-> NoExc]
            ELSE [ops |-> <<>>, exc |-> NoExc]
      \* the other wrappers read completion, text, candidates, generations,
      \* embeddings or body, which none of the responses modelled here carries
      [] OTHER -> [ops |-> <<>>, exc |-> NoExc]

\* _handle_usage_metrics: the span operations, and the TokenUsage records
\* handed to metrics.record_token_usage.  The google, aws and cohere
\* overrides read usage_metadata, body and meta.billed_units, which none of
\* the responses modelled here carries
_handle_usage_metrics(p, m, r) ==
    IF p \in {"openai", "microsoft", "anthropic"} /\ r.usage = "present"
    THEN [ops |-> <<"set_attribute:llm.prompt.tokens",
                    "set_attribute:llm.completion.tokens",
                    "set_attribute:llm.total.tokens",
                    "record_token_usage">>,
          usage |-> <<[provider |-> p]>>]
    ELSE [ops |-> <<>>, usage |-> <<>>]

\* _handle_error_metrics(error, operation): defined on the base class
_handle_error_metrics(p, operation) ==
    <<[operation |-> operation, provider |-> p]>>

\* traced_call with span.add_event("llm.response.received") placed before the
\* original is called
traced_call_received_first(p, m, orig) ==
    LET before == <<"set_attribute:llm.request.model",
                    "add_event:llm.request.start",
                    "add_event:llm.response.received",
                    "original_method">>
    IN IF orig.kind = "raise"
       THEN [ops |-> before, out |-> orig, usage |-> <<>>, errors |-> <<>>]
       ELSE LET x == ExtractResponse(p, m, orig.value)
                u == _handle_usage_metrics(p, m, orig.value)
                received == before \o x.ops
            IN IF x.exc # NoExc
               THEN [ops |-> received, out |-> Raise(x.exc), usage |-> <<>>, errors |-> <<>>]
               ELSE [ops |-> received \o <<"set_response_attributes">> \o u.ops,
                     out |-> orig, usage |-> u.usage, errors |-> <<>>]

\* traced_call(span): what the closure does with the span and what it yields,
\* given the outcome of original_method(*args, **kwargs)
traced_call(p, m, orig) ==
    LET before == <<"set_attribute:llm.request.model",
                    "add_event:llm.request.start",
                    "original_method">>
    IN IF orig.kind = "raise"
       THEN [ops |-> before, out |-> orig, usage |-> <<>>, errors |-> <<>>]
       ELSE LET x == ExtractResponse(p, m, orig.value)
                u == _handle_usage_metrics(p, m, orig.value)
                received == before \o <<"add_event:llm.response.received">> \o x.ops
            IN IF x.exc # NoExc
               THEN [ops |-> received, out |-> Raise(x.exc), usage |-> <<>>, errors |-> <<>>]
               ELSE [ops |-> received \o <<"set_response_attributes">> \o u.ops,
                     out |-> orig, usage |-> u.usage, errors |-> <<>>]

\* how often end() was called on a span
EndCount(span) == Cardinality({i \in DOMAIN span.ops : span.ops[i] = "end"})

\* the success path of _create_llm_span_sync and of with_span
on_return(out) ==
    [ops |-> <<"set_status:OK">>, status |-> "OK", description |-> "",
     exception |-> NoExc, out |-> out]

\* a BaseException passes the `except Exception` clause untouched
on_base_exception(out) ==
    [ops |-> <<>>, status |-> "UNSET", description |-> "",
     exception |-> NoExc, out |-> out]

\* sync_except with the status set as span.set_status(StatusCode.ERROR),
\* the message left out
sync_except_no_message(e) ==
    [ops |-> <<"record_exception", "set_status:ERROR">>, status |-> "ERROR",
     description |-> "", exception |-> e, out |-> Raise(e)]

\* the `except Exception as e:` branch of _create_llm_span_sync
sync_except(e) ==
    [ops |-> <<"record_exception", "set_status:ERROR">>, status |-> "ERROR",
     description |-> str(e), exception |-> e, out |-> Raise(e)]

\* the `finally:` branch of _create_llm_span_sync
sync_finally(out) == <<"end">>

\* _create_llm_span_sync(span_name, attributes, traced_call): the span it
\* leaves behind and what the wrapper hands to its caller
_create_llm_span_sync(p, m, orig) ==
    LET t == traced_call(p, m, orig)
        h == IF t.out.kind = "return" THEN on_return(t.out)
             ELSE IF IsException(t.out.exc) THEN sync_except(t.out.exc)
             ELSE on_base_exception(t.out)
    IN [span |-> [name |-> SpanName(p, m),
                  provider |-> p,
                  ops |-> <<"start_llm_span">> \o t.ops \o h.ops \o sync_finally(h.out),
                  status |-> h.status,
                  description |-> h.description,
                  exception |-> h.exception,
                  original |-> orig,
                  result |-> h.out,
                  live |-> _is_instrumented(Reg, p)],
        out |-> h.out,
        usage |-> t.usage,
        errors |-> t.errors]

\* calling the callable c: each wrapper layer runs _create_llm_span_sync around
\* the callable it wraps; under is what the library original does
RECURSIVE invoke(_, _, _)
invoke(c, m, under) ==
    IF c = <<>> THEN [spans |-> <<>>, out |-> under, usage |-> <<>>, errors |-> <<>>]
    ELSE LET inner == invoke(SubSeq(c, 1, Len(c) - 1), m, under)
             w == _create_llm_span_sync(c[Len(c)], m, inner.out)
         IN [spans |-> Append(inner.spans, w.span),
             out |-> w.out,
             usage |-> inner.usage \o w.usage,
             errors |-> inner.errors \o w.errors]

(***************************************************************************)
(* Calls made by the application.                                          *)
(***************************************************************************)
NoCall ==
    [kind |-> "none", client |-> 0, method |-> "-", async |-> FALSE,
     underlying |-> NoOutcome, result |-> NoOutcome,
     await |-> "none", awaited |-> NoOutcome]

NoMetrics == [token_usage |-> <<>>, errors |-> <<>>]

\* what the library's own method can do when it is called: a coroutine
\* function only builds the awaitable, a plain method returns or raises
Underlying(s) ==
    IF s \in AsyncSlots THEN {Return(Coroutine)}
    ELSE {Return(r) : r \in Responses} \cup {Raise(e) : e \in Exceptions}

\* what awaiting the library's coroutine can do
Awaited ==
    {Return(r) : r \in Responses} \cup {Raise(e) : e \in Exceptions}
        \cup {Raise(CancelledError)}

\* the application calls client k's method m, e.g.
\* client.chat.completions.create(...)
Call(k, m, under) ==
    /\ k \in 1..Len(clients)
    /\ m \in DOMAIN clients[k].methods
    /\ under \in Underlying(clients[k].cls)
    /\ LET r == invoke(clients[k].methods[m], m, under) IN
       /\ call' = [kind |-> "client", client |-> k, method |-> m,
                   async |-> clients[k].cls \in AsyncSlots,
                   underlying |-> under, result |-> r.out,
                   await |-> IF r.out = Return(Coroutine) THEN "pending" ELSE "none",
                   awaited |-> NoOutcome]
       /\ spans' = r.spans
       /\ metrics' = [token_usage |-> r.usage, errors |-> r.errors]
       /\ raised' = (r.out.kind = "raise")
    /\ lastOp' = Op("call", <<>>)
    /\ UNCHANGED <<lib, ctor, instrumentations, instrumented_providers, clients>>
    /\ UNCHANGED sdkVars
    /\ UNCHANGED auxVars

\* the application awaits the coroutine an async client method returned
Await(outcome) ==
    /\ call.kind = "client"
    /\ call.await = "pending"
    /\ outcome \in Awaited
    /\ call' = [call EXCEPT !.await = "done", !.awaited = outcome]
    /\ raised' = (outcome.kind = "raise")
    /\ lastOp' = Op("await", <<>>)
    /\ UNCHANGED <<lib, ctor, instrumentations, instrumented_providers, clients,
                   spans, metrics>>
    /\ UNCHANGED sdkVars
    /\ UNCHANGED auxVars

\* UntraceTracer.with_span / with_llm_span up to its `await fn(span)`
with_span_start ==
    /\ call' = [NoCall EXCEPT !.kind = "with_span", !.async = TRUE,
                              !.await = "suspended"]
    /\ spans' = <<[name |-> "with_span", provider |-> "-",
                   ops |-> <<"start_span">>,
                   status |-> "UNSET", description |-> "", exception |-> NoExc,
                   original |-> NoOutcome, result |-> NoOutcome, live |-> TRUE]>>
    /\ metrics' = NoMetrics
    /\ raised' = FALSE
    /\ lastOp' = Op("with_span", <<>>)
    /\ UNCHANGED <<lib, ctor, instrumentations, instrumented_providers, clients>>
    /\ UNCHANGED sdkVars
    /\ UNCHANGED auxVars

\* bool(error) for the exception classes modelled here
Truthy(e) == TRUE

\* the `except Exception as error:` branch of with_span
with_span_except(e) ==
    [ops |-> <<"record_exception", "set_status:ERROR">>, status |-> "ERROR",
     description |-> IF Truthy(e) THEN str(e) ELSE "Unknown error",
     exception |-> e, out |-> Raise(e)]

\* with_span_finally with span.end() at the end of the try body instead of
\* in a finally clause
with_span_finally_try_only(out) ==
    IF out.kind = "return" THEN <<"end">> ELSE <<>>

\* the `finally:` branch of with_span
with_span_finally(out) == <<"end">>

\* UntraceTracer.with_span from the point where `await fn(span)` completes,
\* raises or is cancelled
with_span(span, outcome) ==
    LET h == IF outcome.kind = "return" THEN on_return(outcome)
             ELSE IF IsException(outcome.exc) THEN with_span_except(outcome.exc)
             ELSE on_base_exception(outcome)
    IN [span EXCEPT
          !.ops = @ \o h.ops \o with_span_finally(h.out),
          !.status = h.status,
          !.description = h.description,
          !.exception = h.exception,
          !.original = outcome,
          !.result = h.out]

with_span_resume(outcome) ==
    /\ call.kind = "with_span"
    /\ call.await = "suspended"
    /\ outcome \in Awaited
    /\ spans' = <<with_span(spans[1], outcome)>>
    /\ call' = [call EXCEPT !.await = "done", !.awaited = outcome,
                            !.underlying = outcome,
                            !.result = with_span(spans[1], outcome).result]
    /\ raised' = (outcome.kind = "raise")
    /\ lastOp' = Op("with_span_resume", <<>>)
    /\ UNCHANGED <<lib, ctor, instrumentations, instrumented_providers, clients,
                   metrics>>
    /\ UNCHANGED sdkVars
    /\ UNCHANGED auxVars

(***************************************************************************)
(* Attribute values and strings, as the exporter sees them.                *)
(* A value is [key, t, v, items]: t is the Python type, v the text of a    *)
(* scalar (str(value)), items the elements of a list or the entries of a   *)
(* dict in insertion order; key is set on the entries of a dict.           *)
(***************************************************************************)
Val(t, v, items) == [key |-> "", t |-> t, v |-> v, items |-> items]

None == Val("NoneType", "None", <<>>)

Str(s) == Val("str", s, <<>>)

Num(s) == Val("int", s, <<>>)

List(items) == Val("list", "", items)

Dict(items) == Val("dict", "", items)

Entry(k, value) == [value EXCEPT !.key = k]

\* the dict keys of the model in the order sorted() puts them
KeyOrder == <<"a", "b", "env", "service.name">>

KeyIndex(k) == CHOOSE i \in DOMAIN KeyOrder : KeyOrder[i] = k

RemoveAt(seq, i) == SubSeq(seq, 1, i - 1) \o SubSeq(seq, i + 1, Len(seq))

\* the entries of a dict ordered by key, as json.dumps(sort_keys=True) walks them
RECURSIVE sort_keys(_)
sort_keys(entries) ==
    IF entries = <<>> THEN <<>>
    ELSE LET i == CHOOSE i \in DOMAIN entries :
                     \A j \in DOMAIN entries :
                        KeyIndex(entries[i].key) <= KeyIndex(entries[j].key)
         IN <<entries[i]>> \o sort_keys(RemoveAt(entries, i))

\* json.dumps(value, sort_keys=sorted): the JSON text, kept as its syntax tree
RECURSIVE json_dumps(_, _)
json_dumps(value, sorted) ==
    CASE value.t = "dict" ->
           LET es == IF sorted THEN sort_keys(value.items) ELSE value.items IN
           [key |-> value.key, t |-> "object", v |-> "",
            items |-> [i \in 1..Len(es) |-> json_dumps(es[i], sorted)]]
      [] value.t \in {"list", "tuple"} ->
           [key |-> value.key, t |-> "array", v |-> "",
            items |-> [i \in 1..Len(value.items) |-> json_dumps(value.items[i], sorted)]]
      [] value.t = "str" -> [key |-> value.key, t |-> "string", v |-> value.v, items |-> <<>>]
      [] value.t = "bool" -> [key |-> value.key, t |-> "boolean", v |-> value.v, items |-> <<>>]
      [] value.t \in {"int", "float"} ->
           [key |-> value.key, t |-> "number", v |-> value.v, items |-> <<>>]
      [] OTHER -> [key |-> value.key, t |-> "null", v |-> "null", items |-> <<>>]

\* UntraceExporter._convert_value
RECURSIVE _convert_value(_)
_convert_value(value) ==
    CASE value.t = "str" -> Val("stringValue", value.v, <<>>)
      [] value.t = "bool" -> Val("boolValue", value.v, <<>>)
      [] value.t = "int" -> Val("intValue", value.v, <<>>)
      [] value.t = "float" -> Val("doubleValue", value.v, <<>>)
      [] value.t \in {"list", "tuple"} ->
           Val("arrayValue", "",
               [i \in 1..Len(value.items) |-> _convert_value(value.items[i])])
      [] value.t = "dict" ->
           LET kept == SelectSeq(value.items, LAMBDA e : e.t # "NoneType") IN
           Val("kvlistValue", "",
               [i \in 1..Len(kept) |-> Entry(kept[i].key, _convert_value(kept[i]))])
      [] OTHER -> Val("stringValue", value.v, <<>>)

\* UntraceExporter._convert_attributes: attributes is a dict, given by its
\* entries in insertion order
_convert_attributes(attributes) ==
    LET kept == SelectSeq(attributes, LAMBDA e : e.t # "NoneType") IN
    [i \in 1..Len(kept) |-> Entry(kept[i].key, _convert_value(kept[i]))]

(***************************************************************************)
(* Spans handed to the exporter.  Strings that the exporter takes apart    *)
(* (scope name and version) are sequences of characters.                   *)
(***************************************************************************)
Version(s) == [none |-> FALSE, s |-> s]

NoVersion == [none |-> TRUE, s |-> <<>>]

InstrumentationScope(name, version) == [none |-> FALSE, name |-> name, version |-> version]

\* span.instrumentation_scope is None
NoScope == [none |-> TRUE, name |-> <<>>, version |-> NoVersion]

\* `version or ''`
VersionOrEmpty(version) == IF version.none \/ version.s = <<>> THEN <<>> ELSE version.s

\* f"{span.instrumentation_scope.name}:{span.instrumentation_scope.version or ''}"
scope_key(span) ==
    span.instrumentation_scope.name \o <<":">>
       \o VersionOrEmpty(span.instrumentation_scope.version)

\* scope_key.split(":", 1)
split_once(key) ==
    LET i == CHOOSE i \in DOMAIN key :
                 key[i] = ":" /\ \A j \in 1..(i - 1) : key[j] # ":"
    IN <<SubSeq(key, 1, i - 1), SubSeq(key, i + 1, Len(key))>>

\* resource_key with json.dumps called without sort_keys=True
resource_key_unsorted(span) == json_dumps(Dict(span.resource), FALSE)

\* json.dumps(resource_attrs, sort_keys=True)
resource_key(span) == json_dumps(Dict(span.resource), TRUE)

\* format(n, '032x') / format(n, '016x'): n in hexadecimal, zero-padded to width
Hex(n, width) == [hex |-> n, width |-> width]

NoParent == [hex |-> 0, width |-> 0]

\* UntraceExporter._time_to_nanos
_time_to_nanos(timestamp) == timestamp

\* str(n) of an integer: its decimal digits
Decimal(n) == [dec |-> n]

\* UntraceExporter._convert_span
_convert_span(span) ==
    [traceId |-> Hex(span.trace_id, 32),
     spanId |-> Hex(span.span_id, 16),
     parentSpanId |-> IF span.parent # 0 THEN Hex(span.parent, 16) ELSE NoParent,
     name |-> span.name,
     kind |-> span.kind,
     startTimeUnixNano |-> Decimal(_time_to_nanos(span.start_time)),
     endTimeUnixNano |-> Decimal(_time_to_nanos(span.end_time)),
     attributes |-> _convert_attributes(span.attributes),
     status |-> [code |-> span.status.status_code, message |-> span.status.description],
     events |-> [i \in 1..Len(span.events) |->
                    [timeUnixNano |-> Decimal(_time_to_nanos(span.events[i].timestamp)),
                     name |-> span.events[i].name,
                     attributes |-> _convert_attributes(span.events[i].attributes)]],
     links |-> [i \in 1..Len(span.links) |->
                    [traceId |-> Hex(span.links[i].trace_id, 32),
                     spanId |-> Hex(span.links[i].span_id, 16),
                     attributes |-> _convert_attributes(span.links[i].attributes)]]]

IndexOfKey(map, k) == CHOOSE i \in DOMAIN map : map[i].key = k

HasKey(map, k) == \E i \in DOMAIN map : map[i].key = k

\* `if k not in map: map[k] = empty`, on a dict given by its entries
SetDefault(map, k, empty) == IF HasKey(map, k) THEN map ELSE Append(map, empty)

\* resource_map[resource_key][scope_key].append(span)
AppendSpan(resource_map, rk, sk, span) ==
    [resource_map EXCEPT ![IndexOfKey(resource_map, rk)].scope_map =
        [SetDefault(@, sk, [key |-> sk, span_list |-> <<>>])
            EXCEPT ![IndexOfKey(SetDefault(@, sk, [key |-> sk, span_list |-> <<>>]), sk)]
                       .span_list = Append(@, span)]]

\* one pass of the grouping loop of _convert_spans_to_payload: resource_map is
\* a dict of dicts of lists, each dict given by its entries in insertion order
group_span(resource_map, rk, sk, span) ==
    AppendSpan(SetDefault(resource_map, rk, [key |-> rk, scope_map |-> <<>>]), rk, sk, span)

\* the grouping loop of _convert_spans_to_payload
RECURSIVE group_spans(_, _)
group_spans(span_list, resource_map) ==
    IF span_list = <<>> THEN resource_map
    ELSE group_spans(Tail(span_list),
                     group_span(resource_map, resource_key(Head(span_list)),
                                scope_key(Head(span_list)), Head(span_list)))

\* the second loop of _convert_spans_to_payload, for one scope group
scope_spans_entry(group) ==
    LET parts == split_once(group.key) IN
    [scope |-> [name |-> parts[1],
                version |-> IF parts[2] # <<>> THEN Version(parts[2]) ELSE NoVersion],
     spans |-> [k \in 1..Len(group.span_list) |-> _convert_span(group.span_list[k])]]

\* the second loop of _convert_spans_to_payload, for one resource group
resource_spans_entry(group) ==
    LET first_span == group.scope_map[1].span_list[1] IN
    [resource |-> [attributes |-> _convert_attributes(first_span.resource)],
     scopeSpans |-> [j \in 1..Len(group.scope_map) |->
                        scope_spans_entry(group.scope_map[j])]]

NoPayload == [resourceSpans |-> <<>>]

\* the second loop of _convert_spans_to_payload, over the resource groups
resource_spans(resource_map) ==
    [i \in 1..Len(resource_map) |-> resource_spans_entry(resource_map[i])]

\* UntraceExporter._convert_spans_to_payload; reading the scope of a span
\* that has none raises AttributeError
_convert_spans_to_payload(span_list) ==
    IF \E i \in DOMAIN span_list : span_list[i].instrumentation_scope.none
    THEN [raised |-> TRUE, payload |-> NoPayload]
    ELSE [raised |-> FALSE,
          payload |-> [resourceSpans |-> resource_spans(group_spans(span_list, <<>>))]]

(***************************************************************************)
(* UntraceExporter.export and the request it sends.                        *)
(***************************************************************************)
SUCCESS == "SUCCESS"

FAILURE == "FAILURE"

\* what the transport does with the POST: a response with a status code, or
\* httpx.RequestError
HttpOutcomes == {"200", "500", "RequestError"}

\* response.is_success
is_success(http) == http = "200"

NoRequest == [sent |-> FALSE, url |-> <<>>, headers |-> <<>>, json |-> NoPayload]

\* {"Authorization": ..., "Content-Type": ..., **self.config.headers}: the
\* entries of the literal, then the caller's entries, a later entry replacing
\* an earlier one with the same key
MergeHeaders(base, custom) ==
    [k \in DOMAIN base \cup DOMAIN custom |->
        IF k \in DOMAIN custom THEN custom[k] ELSE base[k]]

\* the request _export_spans hands to client.post
post_request(config, payload) ==
    [sent |-> TRUE,
     url |-> <<config.base_url, "/api/v1/traces/ingest">>,
     headers |-> MergeHeaders(
                    [h \in {"Authorization", "Content-Type"} |->
                        IF h = "Authorization" THEN <<"Bearer", config.api_key>>
                        ELSE <<"application/json">>],
                    config.headers),
     json |-> payload]

\* the try block of _export_spans once the payload is built (or building it
\* raised), with its except clauses
post_payload(config, built, http) ==
    IF built.raised THEN [result |-> FAILURE, raised |-> FALSE, request |-> NoRequest]
    ELSE [result |-> IF http = "RequestError" THEN FAILURE
                     ELSE IF ~is_success(http) THEN FAILURE ELSE SUCCESS,
          raised |-> FALSE,
          request |-> post_request(config, built.payload)]

\* UntraceExporter._export_spans, with its try/except Exception
_export_spans(config, span_list, http) ==
    post_payload(config, _convert_spans_to_payload(span_list), http)

\* export without its try/except Exception around the event loop
export_no_try(config, span_list, http, running_loop) ==
    IF span_list = <<>> THEN [result |-> SUCCESS, raised |-> FALSE, request |-> NoRequest]
    ELSE IF running_loop
         THEN [result |-> FAILURE, raised |-> TRUE, request |-> NoRequest]
         ELSE _export_spans(config, span_list, http)

\* UntraceExporter.export.  running_loop: the calling thread already runs an
\* event loop, so that loop.run_until_complete raises RuntimeError
export(config, span_list, http, running_loop) ==
    IF span_list = <<>> THEN [result |-> SUCCESS, raised |-> FALSE, request |-> NoRequest]
    ELSE IF running_loop
         THEN [result |-> FAILURE, raised |-> FALSE, request |-> NoRequest]
         ELSE _export_spans(config, span_list, http)

(***************************************************************************)
(* The inputs the exporter is run on.                                      *)
(***************************************************************************)
\* UntraceConfig.__init__, for the fields the SDK reads
UntraceConfig(api_key, headers, providers, disable_auto_instrumentation, max_batch_size, export_interval_ms) ==
    [api_key |-> api_key,
     base_url |-> "https://untrace.dev",
     headers |-> headers,
     providers |-> IF providers = <<>> THEN <<"all">> ELSE providers,
     disable_auto_instrumentation |-> disable_auto_instrumentation,
     max_batch_size |-> max_batch_size,
     export_interval_ms |-> export_interval_ms]

\* config.headers as callers set it: nothing, a header of their own, or a
\* header with the name of one the exporter sets
CustomHeaders ==
    { [h \in {} |-> <<>>],
      [h \in {"X-Custom"} |-> <<"v">>],
      [h \in {"Authorization"} |-> <<"Basic", "creds">>] }

ExporterConfigs ==
    {UntraceConfig("key-1", h, <<>>, FALSE, 512, 5000) : h \in CustomHeaders}

\* resource attribute maps: the same map entered in two orders, and another map
ResourceA == <<Entry("service.name", Str("untrace-app")), Entry("env", Str("prod"))>>

ResourceAReordered == <<Entry("env", Str("prod")), Entry("service.name", Str("untrace-app"))>>

ResourceB == <<Entry("service.name", Str("untrace-app"))>>

AttrsPlain == <<Entry("a", Str("x")), Entry("b", None)>>

AttrsNoneInList == <<Entry("a", List(<<None, Str("x")>>))>>

\* a ReadableSpan, by the attributes the exporter reads
ReadableSpan(resource, scope, attributes) ==
    [name |-> "openai.chat", trace_id |-> 1, span_id |-> 1, parent |-> 0, kind |-> 2,
     start_time |-> 1, end_time |-> 2,
     status |-> [status_code |-> 1, description |-> "None"],
     resource |-> resource, instrumentation_scope |-> scope,
     attributes |-> attributes,
     events |-> <<[name |-> "llm.request.start", timestamp |-> 1, attributes |-> <<>>]>>,
     links |-> <<>>]

SpanPool ==
    { ReadableSpan(ResourceA, InstrumentationScope(<<"u">>, Version(<<"1">>)), AttrsPlain),
      ReadableSpan(ResourceA, InstrumentationScope(<<"u">>, NoVersion), AttrsPlain),
      ReadableSpan(ResourceAReordered, InstrumentationScope(<<"u">>, Version(<<"1">>)),
                   AttrsPlain),
      ReadableSpan(ResourceB, InstrumentationScope(<<"u">>, Version(<<"1">>)),
                   AttrsNoneInList),
      ReadableSpan(ResourceB, InstrumentationScope(<<"a", ":", "b">>, Version(<<"1">>)),
                   AttrsPlain),
      ReadableSpan(ResourceB, NoScope, AttrsPlain) }

\* the span lists handed to export: each span has its own span id
SpanLists ==
    UNION {{[i \in 1..n |-> [f[i] EXCEPT !.span_id = i]] : f \in [1..n -> SpanPool]}
              : n \in 0..MaxSpans}

AttrValues ==
    { None, Str("x"), Num("1"), Val("bool", "True", <<>>), Val("float", "1.5", <<>>),
      List(<<>>), List(<<None>>), Val("tuple", "", <<Str("x"), None>>),
      List(<<List(<<None>>)>>),
      Dict(<<Entry("a", None)>>),
      Dict(<<Entry("a", Str("x")), Entry("b", None)>>),
      Dict(<<Entry("a", List(<<None>>))>>),
      Dict(<<Entry("a", Dict(<<Entry("b", None)>>))>>) }

AttributeMaps ==
    {<<>>} \cup {<<Entry("a", v)>> : v \in AttrValues}
           \cup {<<Entry("b", v), Entry("a", w)>> : v \in AttrValues, w \in AttrValues}

NoExport ==
    [op |-> "none", config |-> UntraceConfig("key-1", <<>>, <<>>, FALSE, 512, 5000),
     spans |-> <<>>, http |-> "200", running_loop |-> FALSE,
     result |-> SUCCESS, request |-> NoRequest,
     attributes |-> <<>>, converted |-> <<>>]

\* the batch processor (or a caller) hands spans to exporter.export
Export(config, span_list, http, running_loop) ==
    \E r \in {export(config, span_list, http, running_loop)} :
    /\ exp' = [NoExport EXCEPT !.op = "export", !.config = config, !.spans = span_list,
                               !.http = http, !.running_loop = running_loop,
                               !.result = r.result, !.request = r.request]
    /\ raised' = r.raised
    /\ lastOp' = Op("export", <<>>)
    /\ UNCHANGED <<lib, ctor, instrumentations, instrumented_providers, clients,
                   call, spans, metrics>>
    /\ UNCHANGED <<global_state, instances, tracer_provider, returned, last_init, bsp>>
    /\ UNCHANGED auxVars

\* exporter._convert_attributes(attributes) on an attribute map
ConvertAttributes(attributes) ==
    /\ exp' = [NoExport EXCEPT !.op = "convert_attributes", !.attributes = attributes,
                               !.converted = _convert_attributes(attributes)]
    /\ raised' = FALSE
    /\ lastOp' = Op("convert_attributes", <<>>)
    /\ UNCHANGED <<lib, ctor, instrumentations, instrumented_providers, clients,
                   call, spans, metrics>>
    /\ UNCHANGED <<global_state, instances, tracer_provider, returned, last_init, bsp>>
    /\ UNCHANGED auxVars

(***************************************************************************)
(* sanitize_attributes (attributes.py).  str() of a value is the text      *)
(* Python builds for it.                                                   *)
(***************************************************************************)
RECURSIVE Join(_, _)
Join(texts, sep) ==
    IF texts = <<>> THEN ""
    ELSE IF Len(texts) = 1 THEN texts[1]
    ELSE texts[1] \o sep \o Join(Tail(texts), sep)

\* repr(value)
RECURSIVE py_repr(_)
py_repr(value) ==
    CASE value.t = "str" -> "'" \o value.v \o "'"
      [] value.t = "list" ->
           "[" \o Join([i \in 1..Len(value.items) |-> py_repr(value.items[i])], ", ") \o "]"
      [] value.t = "tuple" ->
           "(" \o Join([i \in 1..Len(value.items) |-> py_repr(value.items[i])], ", ")
               \o (IF Len(value.items) = 1 THEN "," ELSE "") \o ")"
      [] value.t = "dict" ->
           "{" \o Join([i \in 1..Len(value.items) |->
                           "'" \o value.items[i].key \o "': " \o py_repr(value.items[i])],
                       ", ") \o "}"
      [] OTHER -> value.v

\* str(value)
py_str(value) == IF value.t = "str" THEN value.v ELSE py_repr(value)

\* the loop body of sanitize_attributes with list and dict values stored as they are
sanitized_value_keeps_composites(e) ==
    IF e.t \in {"str", "int", "float", "bool", "list", "dict"} THEN e
    ELSE Entry(e.key, Str(py_str(e)))

\* the loop body of sanitize_attributes: what is stored for an entry whose
\* value is not None
sanitized_value(e) ==
    IF e.t \in {"str", "int", "float", "bool"} THEN e
    ELSE IF e.t \in {"list", "dict"} THEN Entry(e.key, Str(py_str(e)))
    ELSE Entry(e.key, Str(py_str(e)))

\* sanitize_attributes: attributes is a dict, given by its entries in
\* insertion order
sanitize_attributes(attributes) ==
    LET kept == SelectSeq(attributes, LAMBDA e : e.t # "NoneType") IN
    [i \in 1..Len(kept) |-> sanitized_value(kept[i])]

NoSanitize == [op |-> "none", attributes |-> <<>>, result |-> <<>>, times |-> 0]

\* the application calls sanitize_attributes(attributes)
Sanitize(attributes) ==
    /\ san' = [op |-> "sanitize_attributes", attributes |-> attributes,
               result |-> sanitize_attributes(attributes), times |-> 1]
    /\ raised' = FALSE
    /\ lastOp' = Op("sanitize_attributes", <<>>)
    /\ UNCHANGED <<lib, ctor, instrumentations, instrumented_providers, clients,
                   call, spans, metrics>>
    /\ UNCHANGED sdkVars
    /\ UNCHANGED <<current_context, last_set, got>>
    /\ UNCHANGED <<thr, objects, registered, adapter_tracer>>

\* the application calls sanitize_attributes on what the last call returned
SanitizeAgain ==
    /\ san.times = 1
    /\ san' = [op |-> "sanitize_attributes", attributes |-> san.result,
               result |-> sanitize_attributes(san.result), times |-> 2]
    /\ raised' = FALSE
    /\ lastOp' = Op("sanitize_attributes", <<>>)
    /\ UNCHANGED <<lib, ctor, instrumentations, instrumented_providers, clients,
                   call, spans, metrics>>
    /\ UNCHANGED sdkVars
    /\ UNCHANGED <<current_context, last_set, got>>
    /\ UNCHANGED <<thr, objects, registered, adapter_tracer>>

(***************************************************************************)
(* UntraceContext (context.py) over the telemetry runtime's context: a     *)
(* Context is a mapping from keys to values, and the runtime has one       *)
(* current Context.                                                        *)
(***************************************************************************)
\* the keys of self._context_keys that have an id setter and getter
ContextKeys == {"user_id", "session_id", "workflow_id"}

\* Python's None as a context value
NoneValue == [t |-> "NoneType", v |-> "None"]

\* the ids the application sets
IdValues == {[t |-> "str", v |-> "id-1"], [t |-> "str", v |-> "id-2"]}

\* context.set_value(key, value, ctx): the Context it returns, which is ctx
\* with the key set (with_context chains these returned contexts)
set_value(key, value, ctx) == [ctx EXCEPT ![key] = value]

\* context.get_value(key): the value of the key in the current Context
get_value(key) == current_context[key]

\* set_user_id / set_session_id / set_workflow_id: context.set_value(key, id)
\* is called and the Context it returns is dropped; yields the current
\* Context after the call
set_id(key, value) ==
    LET returned_context == set_value(key, value, current_context) IN current_context

\* get_user_id / get_session_id / get_workflow_id
get_id(key) ==
    IF get_value(key).t = "str" THEN get_value(key) ELSE NoneValue

\* the application calls context.set_<key>(value)
SetId(key, value) ==
    /\ current_context' = set_id(key, value)
    /\ last_set' = [last_set EXCEPT ![key] = value]
    /\ raised' = FALSE
    /\ lastOp' = Op("context.set", <<key>>)
    /\ UNCHANGED <<lib, ctor, instrumentations, instrumented_providers, clients,
                   call, spans, metrics>>
    /\ UNCHANGED sdkVars
    /\ UNCHANGED <<san, got>>
    /\ UNCHANGED <<thr, objects, registered, adapter_tracer>>

\* the application calls context.get_<key>()
GetId(key) ==
    /\ got' = get_id(key)
    /\ raised' = FALSE
    /\ lastOp' = Op("context.get", <<key>>)
    /\ UNCHANGED <<lib, ctor, instrumentations, instrumented_providers, clients,
                   call, spans, metrics>>
    /\ UNCHANGED sdkVars
    /\ UNCHANGED <<san, current_context, last_set>>
    /\ UNCHANGED <<thr, objects, registered, adapter_tracer>>

\* clear_context(): context.set_value(key, None) for every key, each
\* returned Context dropped
clear_context ==
    /\ current_context' = current_context
    /\ last_set' = [k \in ContextKeys |-> NoneValue]
    /\ raised' = FALSE
    /\ lastOp' = Op("context.clear", <<>>)
    /\ UNCHANGED <<lib, ctor, instrumentations, instrumented_providers, clients,
                   call, spans, metrics>>
    /\ UNCHANGED sdkVars
    /\ UNCHANGED <<san, got>>
    /\ UNCHANGED <<thr, objects, registered, adapter_tracer>>

(***************************************************************************)
(* Threads.  A thread runs instrument_<p> one statement at a time; the     *)
(* module takes no lock, so the statements of two threads interleave.      *)
(* Adapter objects are known by identity: two threads may hold the same    *)
(* object, or one that _instrumentations no longer holds.                  *)
(***************************************************************************)
NumThreads == 2
Threads == 1..NumThreads

Idle ==
    [pc |-> "idle", p |-> "-", adapter |-> 0, i |-> 0, c |-> Original,
     config |-> "-", self |-> 0, ret |-> 0, exc |-> FALSE]

\* the order in which instrument() walks the constructors of its provider
SlotOrder(p) ==
    CASE p = "openai"    -> <<"OpenAI", "AsyncOpenAI">>
      [] p = "anthropic" -> <<"Anthropic", "AsyncAnthropic">>
      [] p = "google"    -> <<"GenerativeModel">>
      [] p = "microsoft" -> <<"AzureOpenAI", "AsyncAzureOpenAI">>
      [] p = "aws"       -> <<"boto3_client">>
      [] p = "cohere"    -> <<"CohereClient">>

\* _instrumentations as a mapping, given the adapter it holds for provider p
InstrumentationsOf(objs, reg, p) ==
    IF reg = 0 THEN EmptyMap ELSE [x \in {p} |-> objs[reg]]

\* what a step of a thread inside instrument_provider leaves alone
ThreadFrame ==
    /\ UNCHANGED <<lib, clients, call, spans, metrics, raised, lastOp>>
    /\ UNCHANGED sdkVars
    /\ UNCHANGED ctxVars

\* a thread calls instrument_<p>(tracer, metrics, context)
T_call(t, p) ==
    /\ thr[t].pc = "idle"
    /\ \A u \in Threads : thr[u].pc # "idle" => thr[u].p = p
    /\ thr' = [thr EXCEPT ![t] = [Idle EXCEPT !.pc = "check", !.p = p]]
    /\ UNCHANGED <<ctor, instrumentations, instrumented_providers, objects, registered>>
    /\ UNCHANGED adapter_tracer
    /\ ThreadFrame

\* get_provider_instrumentation: `if provider_name not in _instrumentations`
T_check(t) ==
    /\ thr[t].pc = "check"
    /\ thr' = [thr EXCEPT ![t].pc = IF registered = 0 THEN "create" ELSE "fetch"]
    /\ UNCHANGED <<ctor, instrumentations, instrumented_providers, objects, registered>>
    /\ UNCHANGED adapter_tracer
    /\ ThreadFrame

\* get_provider_instrumentation:
\* `_instrumentations[provider_name] = instrumentation_class(...)`
T_create(t) ==
    /\ thr[t].pc = "create"
    /\ objects' = Append(objects, NewAdapter)
    /\ registered' = Len(objects) + 1
    /\ instrumentations' = InstrumentationsOf(objects', registered', thr[t].p)
    /\ thr' = [thr EXCEPT ![t].pc = "fetch"]
    /\ UNCHANGED <<ctor, instrumented_providers>>
    /\ adapter_tracer' = adapter_tracers(InstrumentationsOf(objects', registered', thr[t].p), AppTracer)
    /\ ThreadFrame

\* get_provider_instrumentation: `return _instrumentations[provider_name]`
T_fetch(t) ==
    /\ thr[t].pc = "fetch"
    /\ thr' = [thr EXCEPT ![t].pc = "guard", ![t].adapter = registered]
    /\ UNCHANGED <<ctor, instrumentations, instrumented_providers, objects, registered>>
    /\ UNCHANGED adapter_tracer
    /\ ThreadFrame

\* instrument(): `if self._instrumented: return`
T_guard(t) ==
    /\ thr[t].pc = "guard"
    /\ thr' = [thr EXCEPT ![t].pc = IF objects[thr[t].adapter].instrumented
                                    THEN "add" ELSE "save",
                          ![t].i = 1]
    /\ UNCHANGED <<ctor, instrumentations, instrumented_providers, objects, registered>>
    /\ UNCHANGED adapter_tracer
    /\ ThreadFrame

\* instrument(): `self._original_constructors[cls] = cls.__init__`, for the
\* next class of the provider
T_save(t) ==
    /\ thr[t].pc = "save"
    /\ LET slot == SlotOrder(thr[t].p)[thr[t].i] IN
       objects' = [objects EXCEPT ![thr[t].adapter].original_constructors =
                      MapSet(@, slot, ctor[slot])]
    /\ instrumentations' = InstrumentationsOf(objects', registered, thr[t].p)
    /\ thr' = IF thr[t].i < Len(SlotOrder(thr[t].p))
              THEN [thr EXCEPT ![t].i = @ + 1]
              ELSE [thr EXCEPT ![t].pc = "read", ![t].i = 1]
    /\ UNCHANGED <<ctor, instrumented_providers, registered>>
    /\ UNCHANGED adapter_tracer
    /\ ThreadFrame

\* instrument(): `cls.__init__ = self._wrap_constructor(cls.__init__)`, the
\* right-hand side: the constructor installed now is read and wrapped
T_read(t) ==
    /\ thr[t].pc = "read"
    /\ thr' = [thr EXCEPT ![t].pc = "write",
                          ![t].c = Wrap(ctor[SlotOrder(thr[t].p)[thr[t].i]], thr[t].p)]
    /\ UNCHANGED <<ctor, instrumentations, instrumented_providers, objects, registered>>
    /\ UNCHANGED adapter_tracer
    /\ ThreadFrame

\* instrument(): `cls.__init__ = ...`, the assignment
T_write(t) ==
    /\ thr[t].pc = "write"
    /\ ctor' = [ctor EXCEPT ![SlotOrder(thr[t].p)[thr[t].i]] = thr[t].c]
    /\ thr' = IF thr[t].i < Len(SlotOrder(thr[t].p))
              THEN [thr EXCEPT ![t].pc = "read", ![t].i = @ + 1, ![t].c = Original]
              ELSE [thr EXCEPT ![t].pc = "mark", ![t].c = Original]
    /\ UNCHANGED <<instrumentations, instrumented_providers, objects, registered>>
    /\ UNCHANGED adapter_tracer
    /\ ThreadFrame

\* instrument(): `self._mark_instrumented()`
T_mark(t) ==
    /\ thr[t].pc = "mark"
    /\ objects' = [objects EXCEPT ![thr[t].adapter] = _mark_instrumented(@)]
    /\ instrumentations' = InstrumentationsOf(objects', registered, thr[t].p)
    /\ thr' = [thr EXCEPT ![t].pc = "add"]
    /\ UNCHANGED <<ctor, instrumented_providers, registered>>
    /\ UNCHANGED adapter_tracer
    /\ ThreadFrame

\* instrument_<p>: `_instrumented_providers.add(p)`, and the call returns
T_add(t) ==
    /\ thr[t].pc = "add"
    /\ instrumented_providers' = instrumented_providers \cup {thr[t].p}
    /\ thr' = [thr EXCEPT ![t].pc = "done"]
    /\ UNCHANGED <<ctor, instrumentations, objects, registered>>
    /\ UNCHANGED adapter_tracer
    /\ ThreadFrame

\* both threads have returned from instrument_<p>
BothReturned == \A t \in Threads : thr[t].pc = "done"

(***************************************************************************)
(* The SDK object and the process-wide singleton (untrace.py).             *)
(***************************************************************************)
Max(a, b) == IF a >= b THEN a ELSE b

\* BatchSpanProcessor given the queue size as its max_export_batch_size too
BatchSpanProcessorArgs_batch_is_queue_size(config) ==
    [max_export_batch_size |-> Max(config.max_batch_size * 2, 10),
     max_queue_size |-> Max(config.max_batch_size * 2, 10),
     export_timeout_millis |-> config.export_interval_ms,
     schedule_delay_millis |-> 5000]

\* the arguments Untrace.__init__ builds its BatchSpanProcessor with;
\* schedule_delay_millis is not passed and keeps the library default
BatchSpanProcessorArgs(config) ==
    [max_export_batch_size |-> config.max_batch_size,
     max_queue_size |-> Max(config.max_batch_size * 2, 10),
     export_timeout_millis |-> config.export_interval_ms,
     schedule_delay_millis |-> 5000]

\* BatchSpanProcessor(...) raises ValueError on arguments that are not positive
BatchSpanProcessorRaises(args) ==
    \/ args.max_export_batch_size <= 0
    \/ args.max_queue_size <= 0
    \/ args.schedule_delay_millis <= 0
    \/ args.export_timeout_millis <= 0
    \/ args.max_export_batch_size > args.max_queue_size

(***************************************************************************)
(* The batching processor (spec 4.3), set up by Untrace.__init__ with the  *)
(* arguments of BatchSpanProcessorArgs.  bsp is the processor of the       *)
(* Untrace object constructed last; spans are known by the order in which  *)
(* they ended; elapsed is the time in ms since the last flush.             *)
(***************************************************************************)
NoProcessor ==
    [live |-> FALSE, owner |-> 0, args |-> BatchSpanProcessorArgs(NoExport.config),
     max_batch_size |-> 0, export_interval_ms |-> 0,
     queue |-> <<>>, exports |-> <<>>, ended |-> 0, dropped |-> 0,
     elapsed |-> 0, shutdown |-> FALSE]

\* the processor Untrace.__init__ creates for the object `owner`
NewProcessor(config, owner) ==
    [NoProcessor EXCEPT !.live = TRUE, !.owner = owner,
                        !.args = BatchSpanProcessorArgs(config),
                        !.max_batch_size = config.max_batch_size,
                        !.export_interval_ms = config.export_interval_ms]

\* one export call: the oldest spans of the queue, max_export_batch_size at
\* most; kept with it are what set it off, for a forced flush the number of
\* spans ended by then, for a timer flush the time since the last flush
export_batch(P, trigger) ==
    LET n == IF Len(P.queue) <= P.args.max_export_batch_size THEN Len(P.queue)
             ELSE P.args.max_export_batch_size
    IN [P EXCEPT !.queue = SubSeq(P.queue, n + 1, Len(P.queue)),
                 !.exports = Append(@, [trigger |-> trigger,
                                        batch |-> SubSeq(P.queue, 1, n),
                                        ended |-> IF trigger \in {"flush", "shutdown"}
                                                  THEN P.ended ELSE 0,
                                        elapsed |-> IF trigger = "timer"
                                                    THEN P.elapsed ELSE 0]),
                 !.elapsed = 0]

\* force_flush: export calls until the queue is empty
RECURSIVE drain(_, _)
drain(P, trigger) ==
    IF P.queue = <<>> THEN [P EXCEPT !.elapsed = 0]
    ELSE drain(export_batch(P, trigger), trigger)

\* a span ends and is handed to the processor: rejected after shutdown, one
\* span dropped when the queue is full (the oldest or the incoming one),
\* else appended
on_end(drop) ==
    /\ bsp.live
    /\ bsp.ended < MaxEnded
    /\ drop \in {"oldest", "incoming"}
    /\ LET id == bsp.ended + 1 IN
       bsp' = IF bsp.shutdown
              THEN [bsp EXCEPT !.ended = id, !.dropped = @ + 1]
              ELSE IF Len(bsp.queue) >= bsp.args.max_queue_size
              THEN [bsp EXCEPT !.ended = id, !.dropped = @ + 1,
                               !.queue = IF drop = "oldest" THEN Append(Tail(@), id) ELSE @]
              ELSE [bsp EXCEPT !.ended = id, !.queue = Append(@, id)]
    /\ UNCHANGED <<lib, ctor, instrumentations, instrumented_providers, clients,
                   call, spans, metrics, raised, lastOp>>
    /\ UNCHANGED <<exp, global_state, instances, tracer_provider, returned, last_init>>
    /\ UNCHANGED auxVars

\* the background flush when the queue has reached the batch size
size_export ==
    /\ bsp.live /\ ~bsp.shutdown
    /\ Len(bsp.queue) >= bsp.args.max_export_batch_size
    /\ bsp' = export_batch(bsp, "size")
    /\ UNCHANGED <<lib, ctor, instrumentations, instrumented_providers, clients,
                   call, spans, metrics, raised, lastOp>>
    /\ UNCHANGED <<exp, global_state, instances, tracer_provider, returned, last_init>>
    /\ UNCHANGED auxVars

\* the background flush when the schedule delay has elapsed since the last flush
timer_export ==
    /\ bsp.live /\ ~bsp.shutdown
    /\ bsp.elapsed >= bsp.args.schedule_delay_millis
    /\ bsp' = IF bsp.queue = <<>> THEN [bsp EXCEPT !.elapsed = 0]
              ELSE export_batch(bsp, "timer")
    /\ UNCHANGED <<lib, ctor, instrumentations, instrumented_providers, clients,
                   call, spans, metrics, raised, lastOp>>
    /\ UNCHANGED <<exp, global_state, instances, tracer_provider, returned, last_init>>
    /\ UNCHANGED auxVars

\* 2500 ms pass; the timer flush is not late, so time stops at its deadline
Tick ==
    /\ bsp.live /\ ~bsp.shutdown
    /\ bsp.elapsed < bsp.args.schedule_delay_millis
    /\ bsp' = [bsp EXCEPT !.elapsed = @ + 2500]
    /\ UNCHANGED <<lib, ctor, instrumentations, instrumented_providers, clients,
                   call, spans, metrics, raised, lastOp>>
    /\ UNCHANGED <<exp, global_state, instances, tracer_provider, returned, last_init>>
    /\ UNCHANGED auxVars

\* await sdk.flush(): self._provider.force_flush()
flush(self) ==
    /\ self \in DOMAIN instances
    /\ bsp' = IF bsp.owner = self /\ ~bsp.shutdown THEN drain(bsp, "flush") ELSE bsp
    /\ raised' = FALSE
    /\ lastOp' = Op("untrace.flush", <<self>>)
    /\ UNCHANGED <<lib, ctor, instrumentations, instrumented_providers, clients,
                   call, spans, metrics>>
    /\ UNCHANGED <<exp, global_state, instances, tracer_provider, returned, last_init>>
    /\ UNCHANGED auxVars

\* self._provider.shutdown(): a final forced flush, then no span is accepted
processor_shutdown(P) ==
    IF P.shutdown THEN P ELSE [drain(P, "shutdown") EXCEPT !.shutdown = TRUE]

\* the configurations the batching processor is run with
BatchConfigs ==
    { UntraceConfig("key-1", <<>>, <<>>, TRUE, 2, 2500),
      UntraceConfig("key-1", <<>>, <<>>, TRUE, 3, 7500) }

\* the configurations the application calls init with
SdkConfigs ==
    { UntraceConfig("key-1", <<>>, <<>>, FALSE, 512, 5000),
      UntraceConfig("key-2", <<>>, <<"openai">>, FALSE, 512, 5000),
      UntraceConfig("key-1", <<>>, <<"anthropic", "nonexistent">>, FALSE, 512, 5000),
      UntraceConfig("key-1", <<>>, <<>>, TRUE, 2, 5000),
      UntraceConfig("key-1", <<>>, <<>>, FALSE, 0, 5000) }

\* providers_to_instrument without the `if p in supported_providers` filter
providers_to_instrument_unfiltered(config) ==
    IF \E i \in DOMAIN config.providers : config.providers[i] = "all"
    THEN get_supported_providers
    ELSE config.providers

\* Untrace._auto_instrument: the list handed to instrument_all
providers_to_instrument(config) ==
    IF \E i \in DOMAIN config.providers : config.providers[i] = "all"
    THEN get_supported_providers
    ELSE SelectSeq(config.providers, LAMBDA p : p \in Range(get_supported_providers))

\* Untrace._auto_instrument: instrument_all inside try/except Exception.
\* Yields the registry and _instrumented_providers it leaves.
_auto_instrument(config) ==
    LET providers == providers_to_instrument(config)
        r == instrument_all_providers(Reg, providers)
    IN [reg |-> r.reg,
        instrumented_providers |->
            IF r.raised THEN instrumented_providers
            ELSE instrumented_providers \cup Range(providers)]

\* Untrace.__init__(config): raises when the BatchSpanProcessor rejects its
\* arguments, else yields the new object and what the constructor changed
Untrace(config) ==
    LET k == Len(instances) + 1
        auto == IF config.disable_auto_instrumentation
                THEN [reg |-> Reg, instrumented_providers |-> instrumented_providers]
                ELSE _auto_instrument(config)
    IN IF BatchSpanProcessorRaises(BatchSpanProcessorArgs(config))
       THEN [raised |-> TRUE, self |-> 0, instances |-> instances,
             tracer_provider |-> tracer_provider, processor |-> bsp,
             reg |-> Reg, instrumented_providers |-> instrumented_providers]
       ELSE [raised |-> FALSE, self |-> k,
             instances |-> Append(instances, [config |-> config, shutdown |-> FALSE]),
             processor |-> NewProcessor(config, k),
             \* trace.set_tracer_provider: only the first provider set is kept
             tracer_provider |->
                [provider |-> IF tracer_provider.provider = 0 THEN k
                              ELSE tracer_provider.provider,
                 calls |-> tracer_provider.calls + 1],
             reg |-> auto.reg, instrumented_providers |-> auto.instrumented_providers]

\* init without its `return _global_state["instance"]` branch
init_never_returns_existing(gs) == FALSE

\* init: `if _global_state["is_initialized"] and _global_state["instance"]`
init_returns_existing(gs) == gs.is_initialized /\ gs.instance # 0

\* init(config)
init(config) ==
    /\ lastOp' = Op("untrace.init", <<config>>)
    /\ UNCHANGED <<lib, clients, call, spans, metrics, exp>>
    /\ IF init_returns_existing(global_state)
       THEN /\ returned' = global_state.instance
            /\ last_init' = global_state.instance
            /\ raised' = FALSE
            /\ UNCHANGED <<global_state, instances, tracer_provider, bsp, ctor,
                           instrumentations, instrumented_providers, adapter_tracer>>
       ELSE IF global_state.is_initialized
       THEN \* RuntimeError: already initialized but instance is null
            /\ returned' = 0
            /\ raised' = TRUE
            /\ UNCHANGED <<global_state, instances, tracer_provider, bsp, last_init,
                           ctor, instrumentations, instrumented_providers,
                           adapter_tracer>>
       ELSE /\ Len(instances) < MaxInstances
            /\ LET u == Untrace(config) IN
               /\ global_state' = [instance |-> u.self, is_initialized |-> TRUE]
               /\ instances' = u.instances
               /\ tracer_provider' = u.tracer_provider
               /\ bsp' = u.processor
               /\ instrumentations' = u.reg.inst
               /\ ctor' = u.reg.ctor
               /\ instrumented_providers' = u.instrumented_providers
               \* instrument_all(self._tracer, self._metrics, self._context, ...)
               /\ adapter_tracer' = adapter_tracers(u.reg.inst, u.self)
               /\ returned' = u.self
               /\ last_init' = IF u.raised THEN last_init ELSE u.self
               /\ raised' = u.raised
    /\ UNCHANGED ctxVars
    /\ UNCHANGED thrVars

\* Untrace.shutdown with the reset of _global_state left out
shutdown_keeps_instance(gs, self) == gs

\* Untrace.shutdown: `if _global_state["instance"] == self:` reset
shutdown_global_state(gs, self) ==
    IF gs.instance = self THEN [instance |-> 0, is_initialized |-> FALSE] ELSE gs

\* await sdk.shutdown(), on any Untrace object the application holds
shutdown(self) ==
    /\ self \in DOMAIN instances
    /\ instances' = [instances EXCEPT ![self].shutdown = TRUE]
    /\ bsp' = IF bsp.owner = self THEN processor_shutdown(bsp) ELSE bsp
    /\ global_state' = shutdown_global_state(global_state, self)
    /\ returned' = 0
    /\ raised' = FALSE
    /\ lastOp' = Op("untrace.shutdown", <<self>>)
    /\ UNCHANGED <<lib, ctor, instrumentations, instrumented_providers, clients,
                   call, spans, metrics, exp, tracer_provider, last_init>>
    /\ UNCHANGED auxVars

\* get_untrace()
get_untrace ==
    /\ IF global_state.instance = 0
       THEN returned' = 0 /\ raised' = TRUE
       ELSE returned' = global_state.instance /\ raised' = FALSE
    /\ lastOp' = Op("get_untrace", <<>>)
    /\ UNCHANGED <<lib, ctor, instrumentations, instrumented_providers, clients,
                   call, spans, metrics, exp, global_state, instances,
                   tracer_provider, last_init, bsp>>
    /\ UNCHANGED auxVars

(***************************************************************************)
(* Threads in init(config).  init takes no lock; the statements of two     *)
(* calls interleave.  The constructor call is one step here, which leaves  *)
(* out interleavings inside Untrace.__init__ but adds none.                *)
(***************************************************************************)
\* what a step of a thread inside init leaves alone
InitFrame ==
    /\ UNCHANGED <<lib, clients, call, spans, metrics, raised, lastOp, exp>>
    /\ UNCHANGED <<returned, last_init>>
    /\ UNCHANGED <<objects, registered>>
    /\ UNCHANGED ctxVars

\* a thread calls init(config)
I_call(t, config) ==
    /\ thr[t].pc = "idle"
    /\ \A u \in Threads : thr[u].pc \in {"idle", "i_check", "i_set", "i_construct",
                                           "i_assign", "i_return", "i_done"}
    /\ thr' = [thr EXCEPT ![t] = [Idle EXCEPT !.pc = "i_check", !.config = config]]
    /\ UNCHANGED <<global_state, instances, tracer_provider, bsp, ctor,
                   instrumentations, instrumented_providers>>
    /\ UNCHANGED adapter_tracer
    /\ InitFrame

\* init: the two tests of _global_state; the first returns the existing
\* instance, the second raises RuntimeError
I_check(t) ==
    /\ thr[t].pc = "i_check"
    /\ thr' = IF init_returns_existing(global_state)
              THEN [thr EXCEPT ![t].pc = "i_done", ![t].ret = global_state.instance]
              ELSE IF global_state.is_initialized
              THEN [thr EXCEPT ![t].pc = "i_done", ![t].exc = TRUE]
              ELSE [thr EXCEPT ![t].pc = "i_set"]
    /\ UNCHANGED <<global_state, instances, tracer_provider, bsp, ctor,
                   instrumentations, instrumented_providers>>
    /\ UNCHANGED adapter_tracer
    /\ InitFrame

\* init: `_global_state["is_initialized"] = True`
I_set(t) ==
    /\ thr[t].pc = "i_set"
    /\ global_state' = [global_state EXCEPT !.is_initialized = TRUE]
    /\ thr' = [thr EXCEPT ![t].pc = "i_construct"]
    /\ UNCHANGED <<instances, tracer_provider, bsp, ctor,
                   instrumentations, instrumented_providers>>
    /\ UNCHANGED adapter_tracer
    /\ InitFrame

\* init: `Untrace(config)`, the right-hand side of the assignment; the
\* constructor ends with `_global_state["instance"] = self`
I_construct(t) ==
    /\ thr[t].pc = "i_construct"
    /\ Len(instances) < MaxInstances
    /\ LET u == Untrace(thr[t].config) IN
       /\ global_state' = IF u.raised THEN global_state
                          ELSE [global_state EXCEPT !.instance = u.self]
       /\ instances' = u.instances
       /\ tracer_provider' = u.tracer_provider
       /\ bsp' = u.processor
       /\ instrumentations' = u.reg.inst
       /\ ctor' = u.reg.ctor
       /\ instrumented_providers' = u.instrumented_providers
       /\ adapter_tracer' = adapter_tracers(u.reg.inst, u.self)
       /\ thr' = IF u.raised
                 THEN [thr EXCEPT ![t].pc = "i_done", ![t].exc = TRUE]
                 ELSE [thr EXCEPT ![t].pc = "i_assign", ![t].self = u.self]
    /\ InitFrame

\* init: `_global_state["instance"] = ...`, the assignment
I_assign(t) ==
    /\ thr[t].pc = "i_assign"
    /\ global_state' = [global_state EXCEPT !.instance = thr[t].self]
    /\ thr' = [thr EXCEPT ![t].pc = "i_return"]
    /\ UNCHANGED <<instances, tracer_provider, bsp, ctor,
                   instrumentations, instrumented_providers>>
    /\ UNCHANGED adapter_tracer
    /\ InitFrame

\* init: `return _global_state["instance"]`
I_return(t) ==
    /\ thr[t].pc = "i_return"
    /\ thr' = [thr EXCEPT ![t].pc = "i_done", ![t].ret = global_state.instance]
    /\ UNCHANGED <<global_state, instances, tracer_provider, bsp, ctor,
                   instrumentations, instrumented_providers>>
    /\ UNCHANGED adapter_tracer
    /\ InitFrame

\* every thread has left init, by return or by exception
AllLeftInit == \A t \in Threads : thr[t].pc = "i_done"

\* get_untrace(), called once the threads have left init
get_untrace_after_init ==
    /\ AllLeftInit
    /\ get_untrace

(***************************************************************************)
(* The specification.                                                      *)
(***************************************************************************)
Init ==
    /\ lib \in [Providers -> LibStates]
    /\ ctor = [s \in AllSlots |-> Original]
    /\ instrumentations = EmptyMap
    /\ instrumented_providers = {}
    /\ clients = <<>>
    /\ call = NoCall
    /\ spans = <<>>
    /\ metrics = NoMetrics
    /\ raised = FALSE
    /\ lastOp = [op |-> "init", arg |-> <<>>, again |-> FALSE]
    /\ exp = NoExport
    /\ global_state = [instance |-> 0, is_initialized |-> FALSE]
    /\ instances = <<>>
    /\ tracer_provider = [provider |-> 0, calls |-> 0]
    /\ returned = 0
    /\ last_init = 0
    /\ bsp = NoProcessor
    /\ san = NoSanitize
    /\ current_context = [k \in ContextKeys |-> NoneValue]
    /\ last_set = [k \in ContextKeys |-> NoneValue]
    /\ got = NoneValue
    /\ thr = [t \in Threads |-> Idle]
    /\ objects = <<>>
    /\ registered = 0
    /\ adapter_tracer = [p \in Providers |-> 0]

\* the registry lifecycle: instrumentation.py's functions and the clients the
\* application constructs in between
NextRegistry ==
    \/ \E p \in Providers : instrument_p(p)
    \/ \E p \in Providers : uninstrument_p(p)
    \/ \E providers \in ProviderLists : instrument_all(providers)
    \/ instrument_all_default
    \/ uninstrument_all
    \/ \E s \in AllSlots : \E svc \in Services(s) : NewClient(s, svc)

SpecRegistry == Init /\ [][NextRegistry]_vars

\* the initial state of a process in which every provider library is installed
InitInstalled == Init /\ \A p \in Providers : lib[p] = "present"

\* calls through clients and through with_span, while providers are
\* instrumented and uninstrumented one at a time
NextCalls ==
    \/ \E p \in Providers : instrument_p(p)
    \/ \E p \in Providers : uninstrument_p(p)
    \/ \E s \in AllSlots : \E svc \in Services(s) : NewClient(s, svc)
    \/ \E k \in 1..MaxClients :
         \E m \in UNION {Methods(p) : p \in Providers} :
           \E under \in Underlying("-") \cup {Return(Coroutine)} : Call(k, m, under)
    \/ \E outcome \in Awaited : Await(outcome)
    \/ with_span_start
    \/ \E outcome \in Awaited : with_span_resume(outcome)

SpecCalls == Init /\ [][NextCalls]_vars

\* the exporter, run on span lists and attribute maps.  The exporter keeps no
\* state between calls, so every call is explored from the initial state.
NextExport ==
    \/ \E span_list \in SpanLists : \E http \in HttpOutcomes :
         exp.op = "none" /\ Export(NoExport.config, span_list, http, FALSE)
    \/ \E span_list \in SpanLists :
         exp.op = "none" /\ Export(NoExport.config, span_list, "200", TRUE)
    \/ \E config \in ExporterConfigs : \E span_list \in SpanLists :
         exp.op = "none" /\ Export(config, span_list, "200", FALSE)
    \/ \E attributes \in AttributeMaps :
         exp.op = "none" /\ ConvertAttributes(attributes)

SpecExport == InitInstalled /\ [][NextExport]_vars

\* the singleton lifecycle: init, get_untrace and shutdown, and a teardown of
\* the instrumentation in between
NextSdk ==
    \/ \E config \in SdkConfigs : init(config)
    \/ \E self \in 1..MaxInstances : shutdown(self)
    \/ get_untrace
    \/ uninstrument_all

SpecSdk == Init /\ [][NextSdk]_vars

\* the batching processor of an SDK object: spans end, the background flush
\* exports by size and by time, the application flushes and shuts down
NextBatch ==
    \/ \E config \in BatchConfigs : init(config)
    \/ \E drop \in {"oldest", "incoming"} : on_end(drop)
    \/ size_export
    \/ timer_export
    \/ Tick
    \/ \E self \in 1..MaxInstances : flush(self)
    \/ \E self \in 1..MaxInstances : shutdown(self)

SpecBatch == InitInstalled /\ [][NextBatch]_vars

\* sanitize_attributes, run on attribute maps and on its own results
NextAttributes ==
    \/ \E attributes \in AttributeMaps : san.op = "none" /\ Sanitize(attributes)
    \/ SanitizeAgain

SpecAttributes == InitInstalled /\ [][NextAttributes]_vars

\* the ids kept in the context: set, get and clear in any order
NextContext ==
    \/ \E key \in ContextKeys : \E value \in IdValues : SetId(key, value)
    \/ \E key \in ContextKeys : GetId(key)
    \/ clear_context

SpecContext == InitInstalled /\ [][NextContext]_vars

\* two threads inside instrument_<p> for the same provider, and an
\* uninstrument_<p> once both have returned
NextRace ==
    \/ \E t \in Threads : \E p \in Providers : T_call(t, p)
    \/ \E t \in Threads : T_check(t)
    \/ \E t \in Threads : T_create(t)
    \/ \E t \in Threads : T_fetch(t)
    \/ \E t \in Threads : T_guard(t)
    \/ \E t \in Threads : T_save(t)
    \/ \E t \in Threads : T_read(t)
    \/ \E t \in Threads : T_write(t)
    \/ \E t \in Threads : T_mark(t)
    \/ \E t \in Threads : T_add(t)
    \/ \E p \in Providers : BothReturned /\ thr[1].p = p /\ uninstrument_p(p)

SpecRace == InitInstalled /\ [][NextRace]_vars

\* two threads inside init(config) with nothing initialised, and a
\* get_untrace() once both have left
NextInitRace ==
    \/ \E t \in Threads : \E config \in SdkConfigs : I_call(t, config)
    \/ \E t \in Threads : I_check(t)
    \/ \E t \in Threads : I_set(t)
    \/ \E t \in Threads : I_construct(t)
    \/ \E t \in Threads : I_assign(t)
    \/ \E t \in Threads : I_return(t)
    \/ get_untrace_after_init

SpecInitRace == Init /\ [][NextInitRace]_vars

Next == NextRegistry \/ NextCalls \/ NextExport \/ NextSdk \/ NextBatch \/ NextAttributes
           \/ NextContext \/ NextRace \/ NextInitRace

Spec == Init /\ [][Next]_vars

(***************************************************************************)
(* Properties of the interception engine, checked under SpecCalls.         *)
(***************************************************************************)
ClientsOf(p) == {k \in 1..Len(clients) : clients[k].cls \in Slots(p)}

\* C1: once adapter p is not instrumented (never was, or uninstrument ran),
\* every callable it replaced is the exact original again: the constructors
\* of its classes and every method of every client of those classes; hence
\* no call opens a span for an adapter that is not instrumented
C1_AllOriginalsRestored ==
    /\ \A p \in Providers :
          ~_is_instrumented(Reg, p) =>
             /\ \A s \in Slots(p) : ctor[s] = Original
             /\ \A k \in ClientsOf(p) :
                   \A m \in DOMAIN clients[k].methods :
                      clients[k].methods[m] = Original
    /\ \A i \in DOMAIN spans : spans[i].live

\* C2: when the original callable returns a response r, the intercepted call
\* returns r and raises nothing, whatever the shape of r
C2_ResponseReturnedUnchanged ==
    /\ \A i \in DOMAIN spans :
          spans[i].original.kind = "return" => spans[i].result = spans[i].original
    /\ (call.kind = "client" /\ call.underlying.kind = "return")
          => call.result = call.underlying

\* C3: when the original callable raises an exception e inside an intercepted
\* call (or the function awaited by with_span does), e is recorded on the
\* span, the span status is ERROR with message str(e), and that same e is
\* raised to the caller
C3_ErrorRecordedAndReraised ==
    /\ \A i \in DOMAIN spans :
          (spans[i].original.kind = "raise" /\ IsException(spans[i].original.exc)) =>
             /\ spans[i].exception = spans[i].original.exc
             /\ \E j \in DOMAIN spans[i].ops : spans[i].ops[j] = "record_exception"
             /\ spans[i].status = "ERROR"
             /\ spans[i].description = str(spans[i].original.exc)
             /\ spans[i].result = Raise(spans[i].original.exc)
    /\ (call.kind \in {"client", "with_span"} /\ call.underlying.kind = "raise")
          => call.result = call.underlying

C3_Witness ==
    /\ call.kind = "client"
    /\ call.underlying = Raise(Exc("TimeoutError", <<"slow">>))
    /\ Len(spans) = 1
    /\ spans[1].provider \in Providers
    /\ spans[1].status = "ERROR"
    /\ spans[1].description = "slow"
    /\ raised

\* C4: every span is ended exactly once when the wrapped function returns,
\* raises or is cancelled during the await, and never more than once; it is
\* open only while with_span is suspended in its await
C4_SpanEndedExactlyOnce ==
    \A i \in DOMAIN spans :
       /\ EndCount(spans[i]) <= 1
       /\ (EndCount(spans[i]) = 0) <=> (call.kind = "with_span" /\ call.await = "suspended")
       /\ EndCount(spans[i]) = 1 => spans[i].ops[Len(spans[i].ops)] = "end"

C4_Witness ==
    /\ call.kind = "with_span"
    /\ call.await = "done"
    /\ call.awaited = Raise(CancelledError)
    /\ EndCount(spans[1]) = 1

\* C5: for a call intercepted on an asynchronous client, the span is ended
\* only after the awaited underlying call has completed, with status OK only
\* if the awaited call succeeded and ERROR if it raised
C5_AsyncSpanCoversAwait ==
    (call.kind = "client" /\ call.async) =>
       \A i \in DOMAIN spans :
          /\ EndCount(spans[i]) >= 1 => call.await = "done"
          /\ spans[i].status = "OK" => call.awaited.kind = "return"
          /\ (call.awaited.kind = "raise" /\ IsException(call.awaited.exc))
                => spans[i].status = "ERROR"

\* C6: when the original callable raises during an intercepted call, exactly
\* one error metric tagged {operation, provider} is recorded
C6_ErrorMetricRecorded ==
    (call.kind = "client" /\ Len(spans) = 1 /\ spans[1].original.kind = "raise") =>
       /\ Len(metrics.errors) = 1
       /\ metrics.errors[1].provider = spans[1].provider

(***************************************************************************)
(* Properties of the registry, checked under SpecRegistry.                 *)
(***************************************************************************)
Instrumented(p) == _is_instrumented(Reg, p)

\* the state INSTRUMENTED of adapter p as its wrappers show it: every patched
\* constructor is the wrapper built by p around the library original, and the
\* adapter holds exactly that original for each of them
WrappedOnce(p) ==
    /\ Instrumented(p)
    /\ DOMAIN instrumentations[p].original_constructors = Slots(p)
    /\ \A s \in Slots(p) :
          /\ instrumentations[p].original_constructors[s] = Original
          /\ ctor[s] = Wrap(Original, p)

Unwrapped(p) == \A s \in Slots(p) : ctor[s] = Original

\* C7: is_provider_instrumented(p) is true exactly when adapter p is in state
\* INSTRUMENTED, also when p's library is absent or instrumenting p failed
C7_SetMatchesAdapterState ==
    \A p \in ProviderNames : is_provider_instrumented(p) <=> Instrumented(p)

\* C8: a second instrument(p) in a row changes nothing and, the library being
\* there, leaves p INSTRUMENTED with one recorded original per patched
\* constructor, the unwrapped callable; a second uninstrument(p) in a row
\* changes nothing, raises nothing and leaves p UNINSTRUMENTED, unwrapped
C8_InstrumentIdempotent ==
    [][\A p \in Providers :
          /\ (lastOp.op = "instrument" /\ lastOp.arg = <<p>>
                /\ lastOp'.op = "instrument" /\ lastOp'.arg = <<p>>) =>
                /\ UNCHANGED <<ctor, instrumentations, instrumented_providers, clients>>
                /\ lib[p] = "present" => WrappedOnce(p)'
          /\ (lastOp.op = "uninstrument" /\ lastOp.arg = <<p>>
                /\ lastOp'.op = "uninstrument" /\ lastOp'.arg = <<p>>) =>
                /\ UNCHANGED <<ctor, instrumentations, instrumented_providers, clients>>
                /\ ~raised'
                /\ ~Instrumented(p)'
                /\ Unwrapped(p)'
      ]_vars

C8_Witness ==
    \E p \in Providers :
       /\ lastOp = [op |-> "instrument", arg |-> <<p>>, again |-> TRUE]
       /\ lib[p] = "present"
       /\ WrappedOnce(p)

\* C9: the state of adapter p changes only to INSTRUMENTED in an instrument
\* operation that installed its wrappers, and to UNINSTRUMENTED in an
\* uninstrument operation; with p's library absent, instrument(p) raises
\* nothing, installs no wrapper and leaves p UNINSTRUMENTED
C9_StateMachine ==
    [][\A p \in Providers :
          /\ (~Instrumented(p) /\ Instrumented(p)') =>
                /\ lastOp'.op \in {"instrument", "instrument_all", "instrument_all_default"}
                /\ lib[p] = "present"
                /\ \A s \in Slots(p) : ctor'[s] = Wrap(ctor[s], p)
          /\ (Instrumented(p) /\ ~Instrumented(p)') =>
                /\ lastOp'.op \in {"uninstrument", "uninstrument_all"}
          /\ (lib[p] = "absent" /\ lastOp'.op = "instrument" /\ lastOp'.arg = <<p>>) =>
                /\ ~raised'
                /\ ~Instrumented(p)'
                /\ Unwrapped(p)'
      ]_vars

C9_Witness ==
    \E p \in Providers :
       /\ lib[p] = "absent"
       /\ lastOp.op = "instrument" /\ lastOp.arg = <<p>>
       /\ p \in DOMAIN instrumentations
       /\ ~Instrumented(p)
       /\ ~raised

\* C10: instrument_all is best-effort: it raises nothing, and every listed
\* provider whose library is available ends INSTRUMENTED, wherever in the
\* list a failing provider stands
C10_InstrumentAllBestEffort ==
    /\ lastOp.op = "instrument_all" =>
          /\ ~raised
          /\ \A i \in DOMAIN lastOp.arg :
                (lastOp.arg[i] \in Providers /\ lib[lastOp.arg[i]] = "present")
                   => Instrumented(lastOp.arg[i])
    /\ lastOp.op = "instrument_all_default" =>
          /\ ~raised
          /\ \A p \in Providers : lib[p] = "present" => Instrumented(p)

C10_Witness ==
    /\ lastOp.op = "instrument_all"
    /\ Len(lastOp.arg) = 2
    /\ lastOp.arg[1] \in Providers /\ lastOp.arg[2] \in Providers
    /\ lib[lastOp.arg[1]] = "broken"
    /\ lib[lastOp.arg[2]] = "present"
    /\ Instrumented(lastOp.arg[2])
    /\ ~raised

\* C11: a name that is not a key of PROVIDER_INSTRUMENTATIONS is never reported
\* as instrumented: is_provider_instrumented(name) is false and name is not in
\* get_instrumented_providers(), whatever was called before, instrument_all
\* with a list holding that name included
C11_UnsupportedNeverInstrumented ==
    \A name \in UnsupportedNames :
       /\ ~is_provider_instrumented(name)
       /\ name \notin get_instrumented_providers

(***************************************************************************)
(* Properties of the exporter, checked under SpecExport.                   *)
(***************************************************************************)
\* an export call that got as far as sending its request
RequestSent == exp.op = "export" /\ exp.request.sent

PayloadFails(span_list) == \E i \in DOMAIN span_list : span_list[i].instrumentation_scope.none

\* C12: export never raises; it returns SUCCESS exactly when the span list is
\* empty or the request was answered with a success status, and FAILURE for
\* a non-2xx answer, a transport error and an error while building the payload
C12_ExportNeverRaises ==
    exp.op = "export" =>
       /\ ~raised
       /\ exp.result \in {SUCCESS, FAILURE}
       /\ exp.result = SUCCESS <=>
             (exp.spans = <<>> \/ (exp.request.sent /\ exp.http = "200"))
       /\ (exp.spans # <<>> /\ (exp.http \in {"500", "RequestError"}
                                  \/ PayloadFails(exp.spans)))
             => exp.result = FAILURE

C12_Witness ==
    /\ exp.op = "export"
    /\ exp.spans # <<>>
    /\ exp.http = "RequestError"
    /\ exp.request.sent
    /\ exp.result = FAILURE
    /\ ~raised

RECURSIVE Flatten(_)
Flatten(seqs) == IF seqs = <<>> THEN <<>> ELSE Head(seqs) \o Flatten(Tail(seqs))

\* the input positions (span ids) of the spans of a scopeSpans entry, of a
\* resourceSpans entry and of the whole payload, in document order
ScopeIds(sc) == [k \in 1..Len(sc.spans) |-> sc.spans[k].spanId.hex]

EntryIds(e) == Flatten([j \in 1..Len(e.scopeSpans) |-> ScopeIds(e.scopeSpans[j])])

PayloadIds(payload) ==
    Flatten([i \in 1..Len(payload.resourceSpans) |-> EntryIds(payload.resourceSpans[i])])

Increasing(ids) == \A i, j \in DOMAIN ids : i < j => ids[i] < ids[j]

\* a resource attribute map as a map: its entries, whatever their order
AsMap(entries) == {entries[i] : i \in DOMAIN entries}

\* one resourceSpans entry per distinct resource map, holding the spans of
\* that resource, and every input span in exactly one entry
OneEntryPerResource ==
    LET P == exp.request.json.resourceSpans
        ids == PayloadIds(exp.request.json)
    IN /\ Len(P) = Cardinality({AsMap(exp.spans[i].resource) : i \in DOMAIN exp.spans})
       /\ \A i \in DOMAIN P :
             \A k \in DOMAIN EntryIds(P[i]) :
                AsMap(_convert_attributes(exp.spans[EntryIds(P[i])[k]].resource))
                   = AsMap(P[i].resource.attributes)
       /\ Len(ids) = Len(exp.spans)
       /\ {ids[k] : k \in DOMAIN ids} = DOMAIN exp.spans

\* C13 as stated: one resourceSpans entry per distinct resource attribute
\* map, every input span in exactly one entry, and the spans inside a
\* resourceSpans entry in their input order
C13_EntryKeepsInputOrder ==
    RequestSent =>
       /\ OneEntryPerResource
       /\ \A i \in DOMAIN exp.request.json.resourceSpans :
             Increasing(EntryIds(exp.request.json.resourceSpans[i]))

\* C13 amended: one resourceSpans entry per distinct resource attribute map,
\* every input span in exactly one entry, and the spans inside each
\* scopeSpans entry of a resourceSpans entry in their input order
C13_ScopeGroupKeepsInputOrder ==
    RequestSent =>
       /\ OneEntryPerResource
       /\ \A i \in DOMAIN exp.request.json.resourceSpans :
             \A j \in DOMAIN exp.request.json.resourceSpans[i].scopeSpans :
                Increasing(ScopeIds(exp.request.json.resourceSpans[i].scopeSpans[j]))

C13_Witness ==
    /\ RequestSent
    /\ Len(exp.spans) = 3
    /\ exp.spans[1].resource = ResourceA
    /\ exp.spans[2].resource = ResourceB
    /\ exp.spans[3].resource = ResourceAReordered
    /\ Len(exp.request.json.resourceSpans) = 2
    /\ EntryIds(exp.request.json.resourceSpans[1]) = <<1, 3>>

\* a value with every None taken out, at every depth
RECURSIVE StripNone(_)
StripNone(value) ==
    LET kept == SelectSeq(value.items, LAMBDA e : e.t # "NoneType") IN
    [value EXCEPT !.items = [i \in 1..Len(kept) |-> StripNone(kept[i])]]

StripNoneAttrs(attributes) == StripNone(Dict(attributes)).items

\* C14: no None reaches the payload: what is emitted for an attribute map is
\* what is emitted for that map with its None-valued attributes, the None
\* values of its nested maps and the None elements of its arrays taken out
C14_NoneOmittedEverywhere ==
    /\ exp.op = "convert_attributes" =>
          exp.converted = _convert_attributes(StripNoneAttrs(exp.attributes))
    /\ RequestSent =>
          \A i \in DOMAIN exp.request.json.resourceSpans :
             \A j \in DOMAIN exp.request.json.resourceSpans[i].scopeSpans :
                \A k \in DOMAIN exp.request.json.resourceSpans[i].scopeSpans[j].spans :
                   LET out == exp.request.json.resourceSpans[i].scopeSpans[j].spans[k] IN
                   out.attributes =
                      _convert_attributes(StripNoneAttrs(exp.spans[out.spanId.hex].attributes))

\* C15: every request carries Authorization: Bearer <config.api_key> and
\* Content-Type: application/json, whatever config.headers holds
C15_AuthAndContentTypeHeaders ==
    RequestSent =>
       /\ exp.request.headers["Authorization"] = <<"Bearer", exp.config.api_key>>
       /\ exp.request.headers["Content-Type"] = <<"application/json">>

Compatible(c1, c2) ==
    /\ c1.api_key = c2.api_key
    /\ c1.base_url = c2.base_url
    /\ c1.providers = c2.providers

\* C17: init with a config incompatible with the one the existing instance
\* was built from (another api_key, base_url or providers) raises; so an
\* init that returned has returned an instance built from a compatible config
C17_IncompatibleInitRaises ==
    (lastOp.op = "untrace.init" /\ ~raised) =>
       Compatible(instances[returned].config, lastOp.arg[1])

\* there is no current instance: no init succeeded yet, or the instance the
\* last successful init returned has been shut down
NoCurrentInstance == last_init = 0 \/ instances[last_init].shutdown

\* C18: get_untrace raises exactly when there is no current instance, it
\* creates nothing, and when it returns it returns the instance the last
\* successful init returned
C18_GetUntraceOnlyReturnsCurrent ==
    [][lastOp'.op = "get_untrace" =>
          /\ raised' <=> NoCurrentInstance
          /\ ~raised' => returned' = last_init
          /\ UNCHANGED <<global_state, instances, tracer_provider, last_init>>
      ]_vars

C18_Witness ==
    /\ lastOp.op = "get_untrace"
    /\ ~raised
    /\ returned = 2
    /\ instances[1].shutdown
    /\ ~instances[2].shutdown

(***************************************************************************)
(* Properties of the batching processor, checked under SpecBatch.          *)
(***************************************************************************)
BatchSizes == [i \in DOMAIN bsp.exports |-> Len(bsp.exports[i].batch)]

ExportedIds == Flatten([i \in DOMAIN bsp.exports |-> bsp.exports[i].batch])

\* no time-based flush has fired, and no forced flush ran before n spans had ended
OnlySizeFlushesBefore(n) ==
    \A i \in DOMAIN bsp.exports :
       /\ bsp.exports[i].trigger # "timer"
       /\ bsp.exports[i].trigger \in {"flush", "shutdown"} => bsp.exports[i].ended >= n

\* C19: no export call gets more than max_batch_size spans and no span is
\* exported twice; with max_batch_size = 2, once 5 spans have ended and all of
\* them are exported, no time-based flush having fired, the exporter was
\* called exactly 3 times, with 2, 2 and 1 spans
C19_BatchesOfTwoTwoOne ==
    bsp.live =>
       /\ \A i \in DOMAIN bsp.exports :
             Len(bsp.exports[i].batch) \in 1..bsp.max_batch_size
       /\ \A i, j \in DOMAIN ExportedIds : i # j => ExportedIds[i] # ExportedIds[j]
       /\ (bsp.max_batch_size = 2 /\ bsp.ended = 5 /\ bsp.queue = <<>>
             /\ bsp.dropped = 0 /\ OnlySizeFlushesBefore(5))
             => BatchSizes = <<2, 2, 1>>

C19_Witness ==
    /\ bsp.live
    /\ bsp.max_batch_size = 2
    /\ bsp.ended = 5
    /\ bsp.queue = <<>>
    /\ OnlySizeFlushesBefore(5)
    /\ BatchSizes = <<2, 2, 1>>
    /\ bsp.exports[1].trigger = "size"
    /\ ExportedIds = <<1, 2, 3, 4, 5>>

\* C20: export_interval_ms is the time-based flush trigger: spans never wait
\* in the queue for longer than export_interval_ms since the last flush, and
\* a time-based flush fires when export_interval_ms has elapsed, not earlier
C20_ExportIntervalIsFlushTrigger ==
    (bsp.live /\ ~bsp.shutdown) =>
       /\ bsp.queue # <<>> => bsp.elapsed <= bsp.export_interval_ms
       /\ \A i \in DOMAIN bsp.exports :
             bsp.exports[i].trigger = "timer"
                => bsp.exports[i].elapsed = bsp.export_interval_ms

(***************************************************************************)
(* Usage metrics and span events of an intercepted call, under SpecCalls.  *)
(***************************************************************************)
HasOp(span, op) == \E i \in DOMAIN span.ops : span.ops[i] = op

\* the spans of the last client call whose wrapped callable handed back a response
ResponseSpans ==
    {i \in DOMAIN spans : /\ call.kind = "client"
                          /\ spans[i].original.kind = "return"
                          /\ spans[i].original.value.type = "response"}

\* C21: a span whose call got a response with a usage object ends with the
\* three token attributes set and status OK, and one TokenUsage is recorded
\* for it; for a response without usage the span ends with status OK and no
\* TokenUsage is recorded
C21_UsageRecordedOnce ==
    /\ \A i \in ResponseSpans :
          /\ spans[i].status = "OK"
          /\ spans[i].original.value.usage = "present" =>
                /\ HasOp(spans[i], "set_attribute:llm.prompt.tokens")
                /\ HasOp(spans[i], "set_attribute:llm.completion.tokens")
                /\ HasOp(spans[i], "set_attribute:llm.total.tokens")
    /\ call.kind = "client" =>
          Len(metrics.token_usage) =
             Cardinality({i \in ResponseSpans : spans[i].original.value.usage = "present"})

(***************************************************************************)
(* Auto-instrumentation at init, under SpecSdk.                            *)
(***************************************************************************)
\* the provider names the configuration asks for, among the supported ones
Requested(config) ==
    IF "all" \in Range(config.providers) THEN Providers
    ELSE Range(config.providers) \cap Providers

\* a step that is init(config) with auto-instrumentation enabled, taken while
\* no provider is instrumented
InitFromNothingInstrumented ==
    /\ lastOp'.op = "untrace.init"
    /\ ~lastOp'.arg[1].disable_auto_instrumentation
    /\ get_instrumented_providers = {}

RECURSIVE NotNonePositions(_, _)
NotNonePositions(attributes, i) ==
    IF i > Len(attributes) THEN <<>>
    ELSE IF attributes[i].t = "NoneType" THEN NotNonePositions(attributes, i + 1)
    ELSE <<i>> \o NotNonePositions(attributes, i + 1)

Scalar(value) == value.t \in {"str", "int", "float", "bool"}

\* C23: sanitize_attributes returns exactly the entries whose value is not
\* None, in their insertion order, str/int/float/bool values unchanged and
\* list/dict values replaced by their string form; sanitizing the result
\* again gives the result
C23_SanitizeDropsNoneKeepsOrder ==
    san.op = "sanitize_attributes" =>
       LET pos == NotNonePositions(san.attributes, 1) IN
       /\ Len(san.result) = Len(pos)
       /\ \A i \in DOMAIN pos :
             LET e == san.attributes[pos[i]]
                 r == san.result[i]
             IN /\ r.key = e.key
                /\ Scalar(e) => r = e
                /\ e.t \in {"list", "dict"} =>
                      r.t = "str" /\ r.v = py_str(e) /\ r.items = <<>>
       /\ sanitize_attributes(san.result) = san.result
       /\ san.times = 2 => san.result = san.attributes

C23_Witness ==
    /\ san.times = 2
    /\ Len(san.result) = 2
    /\ san.result[1].key = "b" /\ san.result[1].v = "[None]"
    /\ san.result[2].key = "a" /\ san.result[2].v = "{'a': 'x', 'b': None}"

(***************************************************************************)
(* The ids kept in the context, under SpecContext.                         *)
(***************************************************************************)
\* C24: get_<key>() returns the value of the last set_<key>(value), as long
\* as no clear_context() came after it
C24_GetReturnsLastSet ==
    (lastOp.op = "context.get" /\ last_set[lastOp.arg[1]] # NoneValue)
       => got = last_set[lastOp.arg[1]]

\* the positions at which an operation was performed on a span
Positions(span, op) == {i \in DOMAIN span.ops : span.ops[i] = op}

InputSpans(sc) == {exp.spans[id] : id \in Range(ScopeIds(sc))}

ScopePair(span) == <<span.instrumentation_scope.name, span.instrumentation_scope.version>>

\* C26: within a resource group the payload has one scopeSpans entry per
\* distinct (scope name, scope version) pair, and the scope name and version
\* an entry carries are those of every span in it, also for names that
\* contain ':' and for an absent version
C26_ScopeEntriesMatchSpans ==
    RequestSent =>
       \A i \in DOMAIN exp.request.json.resourceSpans :
          LET entry == exp.request.json.resourceSpans[i]
              inside == UNION {InputSpans(entry.scopeSpans[j]) : j \in DOMAIN entry.scopeSpans}
          IN /\ Len(entry.scopeSpans) = Cardinality({ScopePair(span) : span \in inside})
             /\ \A j \in DOMAIN entry.scopeSpans :
                   \A span \in InputSpans(entry.scopeSpans[j]) :
                      /\ entry.scopeSpans[j].scope.name = span.instrumentation_scope.name
                      /\ entry.scopeSpans[j].scope.version = span.instrumentation_scope.version

(***************************************************************************)
(* Two threads in instrument_<p>, under SpecRace.                          *)
(***************************************************************************)
\* C27: once two threads have both returned from instrument for provider p,
\* the registry holds one adapter for p, its recorded original constructors
\* are the library's originals and each constructor is wrapped exactly
\* once; after the uninstrument that follows, the originals are installed
\* again
C27_ConcurrentInstrumentWrapsOnce ==
    BothReturned =>
       LET p == thr[1].p IN
       IF lastOp.op = "uninstrument"
       THEN \A s \in Slots(p) : ctor[s] = Original
       ELSE /\ p \in DOMAIN instrumentations
            /\ instrumentations[p].instrumented
            /\ \A s \in Slots(p) :
                  /\ instrumentations[p].original_constructors[s] = Original
                  /\ ctor[s] = Wrap(Original, p)

(***************************************************************************)
(* Two threads in init(config), under SpecInitRace.                        *)
(***************************************************************************)
\* the constructor accepts the thread's configuration
ConstructorAccepts(t) == ~BatchSpanProcessorRaises(BatchSpanProcessorArgs(thr[t].config))

\* C28: once the threads that called init concurrently with nothing
\* initialised have all left it, exactly one Untrace instance was
\* constructed, every call returned it, and get_untrace() returns it
C28_ConcurrentInitConstructsOne ==
    (AllLeftInit /\ \A t \in Threads : ConstructorAccepts(t)) =>
       /\ Len(instances) = 1
       /\ \A t \in Threads : ~thr[t].exc /\ thr[t].ret = 1
       /\ global_state.instance = 1
       /\ lastOp.op = "get_untrace" => (~raised /\ returned = 1)

(***************************************************************************)
(* Adapters across shutdown() and a new init(config), under SpecSdk.       *)
(***************************************************************************)
\* C29: when init(config) has just constructed a new instance after the
\* instance before it was shut down, every adapter that is instrumented holds
\* the tracer and metrics of the new instance, and so opens its spans and
\* records its metrics through them
C29_AdaptersUseNewInstance ==
    ( /\ lastOp.op = "untrace.init"
      /\ ~raised
      /\ returned = Len(instances)
      /\ returned = global_state.instance
      /\ returned > 1
      /\ instances[returned - 1].shutdown ) =>
       \A p \in DOMAIN instrumentations :
          instrumentations[p].instrumented => adapter_tracer[p] = returned

(***************************************************************************)
(* init(config) whose constructor raises, under SpecSdk.                   *)
(***************************************************************************)
\* C30: when the Untrace constructor has raised inside init(config), the
\* global state is uninitialised: is_initialized is false and there is no
\* instance, so that a later init constructs one
C30_FailedInitLeavesUninitialised ==
    ( /\ lastOp.op = "untrace.init"
      /\ raised
      /\ BatchSpanProcessorRaises(BatchSpanProcessorArgs(lastOp.arg[1])) ) =>
       /\ ~global_state.is_initialized
       /\ global_state.instance = 0

====
